---- MODULE Spec2Model ----
(***************************************************************************)
(* Model of the book-adventure generator: the file based pipeline cache    *)
(* (PipelineCache), the staged orchestrator (runPipeline) that drives it,  *)
(* the remote call client, and the runtime engine that plays the result.   *)
(*                                                                         *)
(* The specifications share the variables:                                 *)
(*   CacheSpec    a client calling the PipelineCache API in any order      *)
(*   Spec         successive runs of runPipeline against one cache dir     *)
(*   ExecSpec     one fan-out of a run through callBatchParallel           *)
(*   ResolveSpec  resolveConnections on bounded chapter graphs             *)
(*   ValidateSpec validateAndFix on bounded game data                      *)
(*   ClientSpec   concurrent calls of callWithStructuredOutput              *)
(*   EngineSpec   calls on one BookAdventureEngine of the runtime           *)
(***************************************************************************)
EXTENDS Integers, Sequences, FiniteSets, TLC

\* ------------------------------------------------------------------ bounds
MaxSaves == 2        \* CacheSpec: number of save/saveKeyed calls
MaxDeletes == 1      \* artifact files removed from the cache dir by the user
MaxRuns == 2         \* Spec: number of runPipeline invocations
MaxActs == 1         \* acts returned by generateActStructure
MaxBatches == 2      \* content batches of a generated graph
MaxConc == 2         \* config.concurrency
MaxTasks == 3        \* ExecSpec: calls handed to one callBatchParallel
MaxNodes == 3        \* ResolveSpec: scene nodes handed to resolveConnections
MaxResolves == 2     \* ResolveSpec: successive calls of resolveConnections
MaxGameNodes == 3    \* ValidateSpec: story nodes handed to validateAndFix
MaxValidates == 2    \* ValidateSpec: successive calls of validateAndFix

\* ------------------------------------------------------------ cache state
VARIABLES
    manifest,        \* PipelineCache.manifest (in memory): [steps, updatedAt]
    manifestFile,    \* _manifest.json on disk: <<>> when absent, else <<manifest>>
    files,           \* artifact files of the cache dir: file name -> content
    now,             \* the clock read by new Date()
    deletes,         \* number of files removed by the user so far
    lastOp,          \* CacheSpec: the last API call and what it returned
    before           \* CacheSpec: manifest steps and files before the last call

\* --------------------------------------------------------- pipeline state
VARIABLES
    pc,              \* "idle", "check" (at a stage's cache check), "wait"
                     \* (awaiting remote calls), "done", "failed"
    stage,           \* the step the run is at
    run,             \* number of runPipeline invocations so far
    targetNodes,     \* config.targetNodes (fixed per cache dir)
    dryRun,          \* config.dryRun of the current run
    conc,            \* config.concurrency of the current run
    local,           \* the run's local values: summary, worldData, graph, ...
    tasks,           \* the remote calls of the pending await
    firstErr,        \* index of the first task that failed, 0 when none
    result,          \* <<gameData>> once runPipeline has returned
    failure,         \* the error runPipeline rejected with
    hits,            \* <<step, key>> loaded from the cache in this run
    misses,          \* <<step, key>> found missing in this run
    validAtReach,    \* <<step, key>> with entry and file when its stage was reached
    danglingAtReach, \* <<step, key>> with an entry but no file when reached
    invoked,         \* <<step, key>> whose remote generation was started
    saved,           \* <<step, key>> saved in this run
    lastSaved,       \* the step the last action passed to save, or "none"
    stageSnap,       \* the cache when the current stage was reached
    startSnap,       \* the cache when the run started
    prev,            \* how the previous run ended
    touched,         \* a file was removed since the previous run ended
    lostOk,          \* batches whose task completed in the failed previous run
    order,           \* the steps of this run in the order their processing began
    progress         \* <<stage name, percent>> passed to onProgress in this run

cacheVars == <<manifest, manifestFile, files, now, deletes>>
apiVars == <<lastOp, before>>
pipeVars == <<pc, stage, run, targetNodes, dryRun, conc, local, tasks, firstErr, result, failure,
              hits, misses, validAtReach, danglingAtReach, invoked, saved, lastSaved,
              stageSnap, startSnap, prev, touched, lostOk,
             order, progress>>

\* ----------------------------------------------------------- cache module
STEP_ORDER == <<"step1", "step2", "step3a", "step3b", "step3c", "step3", "step4">>

\* The single valued steps runPipeline passes to has/load/save.  The type
\* SingleStep of the cache lists only the first four; 'step5' and 'step6'
\* are passed by runPipeline all the same.
SingleStep == {"step1", "step2", "step3", "step3a", "step5", "step6"}
KeyedStep == {"step3b", "step3c", "step4"}

\* The order in which the pipeline produces the steps.
PipelineOrder ==
    <<"step1", "step2", "step3a", "step3b", "step3c", "step3", "step4", "step5", "step6">>

SafeChars ==
    {"a","b","c","d","e","f","g","h","i","j","k","l","m","n","o","p","q","r","s",
     "t","u","v","w","x","y","z","A","B","C","D","E","F","G","H","I","J","K","L",
     "M","N","O","P","Q","R","S","T","U","V","W","X","Y","Z","0","1","2","3","4",
     "5","6","7","8","9","_","-"}

\* key.replace(/[^a-zA-Z0-9_-]/g, '_'); a key is a sequence of characters
sanitizeKey(key) ==
    [i \in 1..Len(key) |-> IF key[i] \in SafeChars THEN key[i] ELSE "_"]

\* `${step}.json`
SingleFile(step) == <<step>>
\* `${step}_${sanitizeKey(key)}.json`
KeyedFile(step, key) == <<step, sanitizeKey(key)>>

Restrict(fn, S) == [x \in S |-> fn[x]]

\* STEP_ORDER.indexOf(step) + 1, so 0 when the step is not listed
IndexOf(seq, x) ==
    IF \E i \in 1..Len(seq) : seq[i] = x
    THEN CHOOSE i \in 1..Len(seq) : seq[i] = x
    ELSE 0

\* the files a manifest entry references ('file' in entry tells a StepEntry
\* from a keyed map; the keys of the model never equal "file")
EntryFiles(step, entry) ==
    IF step \in KeyedStep
    THEN {entry[k].file : k \in DOMAIN entry}
    ELSE {entry.file}

\* A cache value c is [m |-> manifest.steps, f |-> files].
invalidateDownstream(c, fromStep) ==
    LET idx == IndexOf(STEP_ORDER, fromStep)
        down == IF idx = 0 THEN {}
                ELSE {STEP_ORDER[i] : i \in (idx + 1)..Len(STEP_ORDER)} \cap DOMAIN c.m
        dead == UNION {EntryFiles(s, c.m[s]) : s \in down}
    IN  [m |-> Restrict(c.m, DOMAIN c.m \ down),
         f |-> Restrict(c.f, DOMAIN c.f \ dead)]

has(c, step) ==
    /\ step \in DOMAIN c.m
    /\ c.m[step].file \in DOMAIN c.f

\* only called where the entry and the file exist
load(c, step) == c.f[c.m[step].file]

save(c, step, data, t) ==
    LET c1 == invalidateDownstream(c, step)
        filename == SingleFile(step)
    IN  [m |-> (step :> [file |-> filename, completedAt |-> t]) @@ c1.m,
         f |-> (filename :> data) @@ c1.f]

\* mutant: the existence of the artifact file is not checked
hasKeyedListed(c, step, key) ==
    /\ step \in DOMAIN c.m
    /\ key \in DOMAIN c.m[step]

hasKeyed(c, step, key) ==
    /\ step \in DOMAIN c.m
    /\ key \in DOMAIN c.m[step]
    /\ c.m[step][key].file \in DOMAIN c.f

loadKeyed(c, step, key) == c.f[c.m[step][key].file]

saveKeyed(c, step, key, data, t) ==
    LET c1 == IF step \notin DOMAIN c.m
              THEN LET ci == invalidateDownstream(c, step)
                   IN  [m |-> (step :> << >>) @@ ci.m, f |-> ci.f]
              ELSE c
        filename == KeyedFile(step, key)
    IN  [m |-> (step :> ((key :> [file |-> filename, completedAt |-> t]) @@ c1.m[step]))
                 @@ c1.m,
         f |-> (filename :> data) @@ c1.f]

keyedCount(c, step) ==
    IF step \in DOMAIN c.m THEN Cardinality(DOMAIN c.m[step]) ELSE 0

\* saveManifest: stamp updatedAt and rewrite _manifest.json
saveManifest(steps, t) == [steps |-> steps, updatedAt |-> t]

Cache == [m |-> manifest.steps, f |-> files]

\* the cache after one save call: artifact written, manifest rewritten
Commit(c) ==
    /\ manifest' = saveManifest(c.m, now)
    /\ manifestFile' = <<manifest'>>
    /\ files' = c.f
    /\ now' = now + 1

NoKey == << >>

Snapshot == [m |-> manifest.steps, f |-> files]

\* --------------------------------------------------- pipeline: the values
batchSize == 5

\* const useHierarchical = targetNodes > 100
hierarchicalThreshold == 100

\* the target sizes a cache dir is created for: both sides of the threshold
TargetSizes == {hierarchicalThreshold, hierarchicalThreshold + 1}

\* mutant: the threshold itself already selects the hierarchical path
useHierarchicalFrom == targetNodes >= hierarchicalThreshold

\* mutant: the graph is always generated by the single flat call
useHierarchicalNever == FALSE

useHierarchical == targetNodes > hierarchicalThreshold

\* nodes of one generated chapter scene graph
NodesPerChapter == 6

\* An artifact is [gen |-> the run whose remote call produced it, n |-> size]
D(gen, n) == [gen |-> gen, n |-> n]

DigitChars == <<"0", "1", "2", "3", "4", "5", "6", "7", "8", "9">>

RECURSIVE NumString(_)
NumString(i) ==
    IF i < 10 THEN <<DigitChars[i + 1]>>
    ELSE NumString(i \div 10) \o <<DigitChars[(i % 10) + 1]>>

RECURSIVE padStart(_, _, _)
padStart(str, len, ch) ==
    IF Len(str) >= len THEN str ELSE padStart(<<ch>> \o str, len, ch)

\* String(i).padStart(3, '0')
BatchKey(i) == padStart(NumString(i), 3, "0")

\* the ids the generation gives the i-th act and its chapter
ActId(i) == <<"a">> \o NumString(i)
ChapterId(i) == <<"c">> \o NumString(i)

\* createBatches(nodes, size).length for a list of n nodes
createBatches(n, size) == (n + size - 1) \div size

SetMax(S) == CHOOSE x \in S : \A y \in S : y <= x
SetMin(S) == CHOOSE x \in S : \A y \in S : x <= y

RECURSIVE SumN(_, _)
SumN(fn, S) ==
    IF S = {} THEN 0
    ELSE LET k == CHOOSE x \in S : TRUE IN fn[k].n + SumN(fn, S \ {k})

\* the artifact resolveConnections returns, as the runs see it: made from the
\* act, chapter and scene artifacts (the newest of them dates it), with all
\* the scene nodes; ResolveSpec models its content
resolvedArtifact(actStructure, chapterStructures, chapterGraphs) ==
    D(SetMax({actStructure.gen}
             \cup {chapterStructures[k].gen : k \in DOMAIN chapterStructures}
             \cup {chapterGraphs[k].gen : k \in DOMAIN chapterGraphs}),
      SumN(chapterGraphs, DOMAIN chapterGraphs))

assembleGameData(graph, worldData, allNodes) ==
    [graph |-> graph, world |-> worldData, nodes |-> allNodes,
     enriched |-> FALSE, validated |-> FALSE]

enrichGameData(gameData) == [gameData EXCEPT !.enriched = TRUE]

validatedArtifact(gameData) == [gameData EXCEPT !.validated = TRUE]

\* what a remote generation of the step can return in the current run
Results(step) ==
    CASE step = "step1"  -> {D(run, 0), D(run, 1)}   \* n = 0: required fields missing
      [] step = "step2"  -> {D(run, 0)}
      [] step = "step3a" -> {D(run, k) : k \in 1..MaxActs}
      [] step = "step3b" -> {D(run, 1)}
      [] step = "step3c" -> {D(run, NodesPerChapter)}
      [] step = "step3"  -> {D(run, batchSize * k) : k \in 1..MaxBatches}
      [] step = "step4"  -> {D(run, 0)}

LocalName(step) ==
    CASE step = "step1"  -> "summary"
      [] step = "step2"  -> "worldData"
      [] step = "step3a" -> "actStructure"
      [] step = "step3b" -> "chapterStructures"
      [] step = "step3c" -> "chapterGraphs"
      [] step = "step3"  -> "graph"
      [] step = "step4"  -> "allNodes"
      [] step = "step5"  -> "gameData"
      [] step = "step6"  -> "gameData"

\* the partition keys of a keyed stage, in the order the run visits them
KeysOf(step) ==
    CASE step = "step3b" -> [i \in 1..local.actStructure.n |-> ActId(i)]
      [] step = "step3c" -> [i \in 1..Cardinality(DOMAIN local.chapterStructures)
                               |-> ChapterId(i)]
      [] step = "step4"  -> [i \in 1..createBatches(local.graph.n, batchSize)
                               |-> BatchKey(i - 1)]

NextOf(step) ==
    CASE step = "step3b" -> "step3c"
      [] step = "step3c" -> "step3d"
      [] step = "step4"  -> "step5"

Range(seq) == {seq[i] : i \in 1..Len(seq)}

\* ------------------------------------------------ the task executor (await)
\* the result slot of a call that has not returned
NoResult == [gen |-> 0, n |-> 0, key |-> NoKey]

Task(step, key, st) == [step |-> step, key |-> key, st |-> st, data |-> NoResult]

\* what the call of a task returns: the generated value d; the value of a
\* partition names the act, chapter or batch it was generated for
ResultOf(task, d) ==
    IF task.step \in KeyedStep THEN [gen |-> d.gen, n |-> d.n, key |-> task.key] ELSE d

\* mutant: results are appended in the order the calls complete
StoreResultPushed(ts, i, r) ==
    [ts EXCEPT ![SetMin({j \in 1..Len(ts) : ts[j].data = NoResult})].data = r]

\* results[i] = the result of calls[i]
StoreResult(ts, i, r) == [ts EXCEPT ![i].data = r]

Running(ts) == {i \in 1..Len(ts) : ts[i].st = "running"}
Queued(ts) == {i \in 1..Len(ts) : ts[i].st = "queued"}

\* mutant: every call is started at once
StartFanoutAll(step, keys) == [i \in 1..Len(keys) |-> Task(step, keys[i], "running")]

\* callBatchParallel(calls, concurrency): the first `concurrency` calls start
StartFanout(step, keys) ==
    [i \in 1..Len(keys) |-> Task(step, keys[i], IF i <= conc THEN "running" ELSE "queued")]

\* all started calls have settled and no further call will start
Settled == Running(tasks) = {} /\ (firstErr # 0 \/ Queued(tasks) = {})

\* mutant: the call is not awaited, the run goes on at once
AwaitedAtOnce == TRUE

\* mutant: the run goes on with the first result that arrives
AwaitedOnAny == \E i \in 1..Len(tasks) : tasks[i].st = "ok"

\* `await`: the run resumes only when the awaited promise has settled
Awaited == Settled

Started(ts) == {<<ts[i].step, ts[i].key>> : i \in {j \in 1..Len(ts) : ts[j].st # "queued"}}

\* ------------------------------------------------------------- onProgress
\* the stage name the run reports a step under
StageName(step) ==
    CASE step = "step1" -> "storySummary"
      [] step = "step2" -> "worldBuilding"
      [] step \in {"step3", "step3a", "step3b", "step3c", "step3d"} -> "storyGraph"
      [] step = "step4" -> "nodeContent"
      [] step = "step5" -> "enrichment"
      [] step = "step6" -> "validation"

Emit(step, percents) ==
    progress' = progress \cup {<<StageName(step), p>> : p \in percents}

Enter(step) == order' = Append(order, step)

\* the percents summarizeStory and buildWorld pass to their callback
summarizerProgress == {0, 100}
worldBuilderProgress == {0, 100}

\* generateStoryGraph: 10 and 30 before its remote call, 100 after it
sceneGraphStarted == {10, 30}
sceneGraphReturned == {100}

\* a single valued step is loaded from the cache
HitProgress(step) == IF step = "step3a" THEN {} ELSE {100}

\* a single valued step is not cached: what is reported up to the await
MissProgress(step) ==
    CASE step = "step1"  -> {0}
      [] step = "step2"  -> {0}
      [] step = "step3"  -> IF useHierarchical THEN {0} ELSE {0} \cup sceneGraphStarted
      [] step = "step3a" -> {5}

\* what is reported once the results of a step are saved
SavedProgress(step) == IF step \in {"step3a", "step3b", "step3c"} THEN {} ELSE {100}

\* a keyed stage is reached; allCached: no call is needed
KeyedProgress(step, allCached) ==
    CASE step = "step3b" -> {20}
      [] step = "step3c" -> {40}
      [] step = "step4"  -> IF allCached THEN {0, 100} ELSE {0}

Completed(ts) == Cardinality({i \in 1..Len(ts) : ts[i].st = "ok"})

\* mutant: the completed share is scaled to 100 on top of the offset
CompletionProgressUnscaled(step, ts) ==
    CASE step = "step1"  -> summarizerProgress
      [] step = "step2"  -> worldBuilderProgress
      [] step = "step3"  -> sceneGraphReturned
      [] step = "step3a" -> {}
      [] step = "step3b" -> {}
      [] step = "step3c" -> {40 + ((Completed(ts) * 100) \div Len(ts))}
      [] step = "step4"  ->
           LET totalBatches == createBatches(local.graph.n, batchSize)
               cachedBatchCount == totalBatches - Len(ts)
           IN  {5 + (((cachedBatchCount + Completed(ts)) * 100) \div totalBatches)}

\* what is reported when a remote call of the step returns; ts: the tasks
\* of the fan-out after the completion
CompletionProgress(step, ts) ==
    CASE step = "step1"  -> summarizerProgress
      [] step = "step2"  -> worldBuilderProgress
      [] step = "step3"  -> sceneGraphReturned
      [] step = "step3a" -> {}
      [] step = "step3b" -> {}
      [] step = "step3c" -> {40 + ((Completed(ts) * 40) \div Len(ts))}
      [] step = "step4"  ->
           LET totalBatches == createBatches(local.graph.n, batchSize)
               cachedBatchCount == totalBatches - Len(ts)
           IN  {5 + (((cachedBatchCount + Completed(ts)) * 90) \div totalBatches)}

\* a remote call returns; the executor starts the next queued call
TaskOk(i) ==
    /\ pc = "wait"
    /\ i \in Running(tasks)
    /\ \E d \in Results(tasks[i].step) :
         LET done == StoreResult([tasks EXCEPT ![i].st = "ok"], i, ResultOf(tasks[i], d))
         IN  tasks' = IF firstErr = 0 /\ Queued(done) # {}
                      THEN [done EXCEPT ![SetMin(Queued(done))].st = "running"]
                      ELSE done
    /\ invoked' = invoked \cup Started(tasks')
    /\ Emit(tasks[i].step, CompletionProgress(tasks[i].step, tasks'))
    /\ lastSaved' = "none"
    /\ UNCHANGED <<pc, stage, run, targetNodes, dryRun, conc, local, firstErr, result, failure,
                   hits, misses, validAtReach, danglingAtReach, saved,
                   stageSnap, startSnap, prev, touched, lostOk, order>>
    /\ UNCHANGED <<cacheVars, apiVars>>

\* mutant: the error kept is the one of the last call that failed
LastError(fe, i) == i

\* the executor keeps the error of the first call that fails
FirstError(fe, i) == IF fe = 0 THEN i ELSE fe

\* a remote call fails after its own retries
TaskErr(i) ==
    /\ pc = "wait"
    /\ i \in Running(tasks)
    /\ tasks' = [tasks EXCEPT ![i].st = "err"]
    /\ firstErr' = FirstError(firstErr, i)
    /\ lastSaved' = "none"
    /\ UNCHANGED <<pc, stage, run, targetNodes, dryRun, conc, local, result, failure,
                   hits, misses, validAtReach, danglingAtReach, invoked, saved,
                   stageSnap, startSnap, prev, touched, lostOk, order, progress>>
    /\ UNCHANGED <<cacheVars, apiVars>>

\* ------------------------------------------------------------- runPipeline
\* mutant: the error of a failed call is swallowed
RejectedNever(fe) == FALSE

\* the await of the remote call(s) throws: runPipeline has no try/catch, so
\* the first error of the settled calls ends the run
Rejected(fe) == fe # 0

EntryPairs(step, keys) == {<<step, k>> : k \in keys}

\* the manifest holds an entry for the pair
Listed(c, p) ==
    /\ p[1] \in DOMAIN c.m
    /\ p[1] \in KeyedStep => p[2] \in DOMAIN c.m[p[1]]

FileOf(c, p) == IF p[1] \in KeyedStep THEN c.m[p[1]][p[2]].file ELSE c.m[p[1]].file

Goto(s) ==
    /\ pc' = "check"
    /\ stage' = s
    /\ UNCHANGED <<result, failure>>

Reject(kind, step, key) ==
    /\ pc' = "failed"
    /\ failure' = [kind |-> kind, step |-> step, key |-> key]
    /\ UNCHANGED <<stage, result>>

Return(v) ==
    /\ pc' = "done"
    /\ result' = <<v>>
    /\ UNCHANGED <<stage, failure>>

\* mutant: the dryRun flag is ignored
FinishAlways(step, v) ==
    CASE step = "step1"  -> IF v.n = 0 THEN Reject("summary", step, NoKey) ELSE Goto("step2")
      [] step = "step2"  -> Goto("step3")
      [] step = "step3a" -> Goto("step3b")
      [] step = "step3"  -> Goto("step4")
      [] step = "step5"  -> Goto("step6")
      [] step = "step6"  -> Return(v)

\* what follows a single valued stage once its value v is known
Finish(step, v) ==
    CASE step = "step1"  -> IF v.n = 0 THEN Reject("summary", step, NoKey) ELSE Goto("step2")
      [] step = "step2"  -> Goto("step3")
      [] step = "step3a" -> Goto("step3b")
      [] step = "step3"  -> IF dryRun
                            THEN Return(assembleGameData(v, local.worldData, << >>))
                            ELSE Goto("step4")
      [] step = "step5"  -> Goto("step6")
      [] step = "step6"  -> Return(v)

Reach(pairs) ==
    /\ validAtReach' = validAtReach \cup
         {p \in pairs : Listed(Cache, p) /\ FileOf(Cache, p) \in DOMAIN files}
    /\ danglingAtReach' = danglingAtReach \cup
         {p \in pairs : Listed(Cache, p) /\ FileOf(Cache, p) \notin DOMAIN files}
    /\ stageSnap' = Snapshot

NoCall == UNCHANGED <<tasks, firstErr, invoked>>
NoSave == UNCHANGED <<cacheVars, saved>> /\ lastSaved' = "none"
RunConst == UNCHANGED <<run, targetNodes, dryRun, conc, startSnap, prev, touched, lostOk, apiVars>>

\* mutant: the constructor always starts from an empty manifest
openManifestFresh(file, t) == saveManifest(<< >>, t)

\* the constructor: the manifest is read from _manifest.json when it exists
\* and is created empty otherwise
openManifest(file, t) ==
    IF file # << >> THEN file[1] ELSE saveManifest(<< >>, t)

\* the manifest steps recorded on disk
DiskSteps == IF manifestFile # << >> THEN manifestFile[1].steps ELSE << >>

\* new PipelineCache(...) followed by the call of runPipeline
RunStart ==
    /\ pc \in {"idle", "done", "failed"}
    /\ run < MaxRuns
    /\ run' = run + 1
    /\ manifest' = openManifest(manifestFile, now)
    /\ manifestFile' = IF manifestFile # << >> THEN manifestFile ELSE <<manifest'>>
    /\ \E d \in BOOLEAN : dryRun' = d
    /\ pc' = "check"
    /\ stage' = "step1"
    /\ local' = << >>
    /\ tasks' = << >>
    /\ firstErr' = 0
    /\ result' = << >>
    /\ failure' = [kind |-> "none", step |-> "none", key |-> NoKey]
    /\ hits' = {} /\ misses' = {} /\ validAtReach' = {} /\ danglingAtReach' = {}
    /\ invoked' = {} /\ saved' = {} /\ lastSaved' = "none"
    /\ order' = << >> /\ progress' = {}
    /\ stageSnap' = [m |-> manifest'.steps, f |-> files]
    /\ startSnap' = [m |-> DiskSteps, f |-> files]
    /\ prev' = [ran |-> pc # "idle", done |-> pc = "done", dry |-> dryRun,
                result |-> result, intact |-> ~touched]
    /\ touched' = FALSE
    /\ lostOk' = IF pc = "failed" /\ failure.kind = "task" /\ failure.step = "step4"
                    /\ ~touched
                 THEN {tasks[i].key : i \in {j \in 1..Len(tasks) : tasks[j].st = "ok"}}
                 ELSE {}
    /\ UNCHANGED <<files, now, deletes, targetNodes, conc, apiVars>>

\* between two runs the user removes one artifact file from the cache dir
EnvDelete(file) ==
    /\ pc \in {"done", "failed"}
    /\ run < MaxRuns
    /\ ~touched
    /\ deletes < MaxDeletes
    /\ file \in DOMAIN files
    /\ files' = Restrict(files, DOMAIN files \ {file})
    /\ deletes' = deletes + 1
    /\ touched' = TRUE
    /\ lastSaved' = "none"
    /\ UNCHANGED <<manifest, manifestFile, now, apiVars>>
    /\ UNCHANGED <<pc, stage, run, targetNodes, dryRun, conc, local, tasks, firstErr, result,
                   failure, hits, misses, validAtReach, danglingAtReach, invoked, saved,
                   stageSnap, startSnap, prev, lostOk, order, progress>>

RemoteSingle == {"step1", "step2", "step3a", "step3"}

\* steps 1, 2, 3 and 3a: cache hit -> load, miss -> start the remote call
CheckSingle(step) ==
    /\ pc = "check" /\ stage = step
    /\ Reach({<<step, NoKey>>})
    /\ Enter(step)
    /\ IF has(Cache, step)
       THEN LET v == load(Cache, step)
            IN  /\ local' = (LocalName(step) :> v) @@ local
                /\ hits' = hits \cup {<<step, NoKey>>}
                /\ Emit(step, HitProgress(step))
                /\ Finish(step, v)
                /\ UNCHANGED misses /\ NoCall
       ELSE /\ misses' = misses \cup {<<step, NoKey>>}
            /\ Emit(step, MissProgress(step))
            /\ UNCHANGED <<hits, local>>
            /\ IF step = "step3" /\ useHierarchical
               THEN Goto("step3a") /\ NoCall
               ELSE /\ pc' = "wait"
                    /\ tasks' = <<Task(step, NoKey, "running")>>
                    /\ firstErr' = 0
                    /\ invoked' = invoked \cup {<<step, NoKey>>}
                    /\ UNCHANGED <<stage, result, failure>>
    /\ NoSave /\ RunConst

\* the awaited call of a single valued step has settled
JoinSingle(step) ==
    /\ pc = "wait" /\ stage = step /\ Awaited
    /\ IF Rejected(firstErr)
       THEN /\ Reject("task", tasks[firstErr].step, tasks[firstErr].key)
            /\ NoSave
            /\ UNCHANGED <<local, progress>>
       ELSE LET v == tasks[1].data
            IN  /\ Commit(save(Cache, step, v, now))
                /\ saved' = saved \cup {<<step, NoKey>>}
                /\ lastSaved' = step
                /\ local' = (LocalName(step) :> v) @@ local
                /\ Emit(step, SavedProgress(step))
                /\ Finish(step, v)
                /\ UNCHANGED deletes
    /\ UNCHANGED <<hits, misses, validAtReach, danglingAtReach, stageSnap, order>>
    /\ NoCall /\ RunConst

\* mutant: a call for every key, cached or not
UncachedAll(c, step, keys) == keys

\* mutant: only keys the manifest does not list count as uncached
UncachedUnlisted(c, step, keys) ==
    SelectSeq(keys, LAMBDA k : step \notin DOMAIN c.m \/ k \notin DOMAIN c.m[step])

\* the calls built for a keyed stage: one per key without a valid entry
Uncached(c, step, keys) == SelectSeq(keys, LAMBDA k : ~hasKeyed(c, step, k))

\* steps 3b, 3c and 4: load the cached partitions, fan out over the others
CheckKeyed(step) ==
    /\ pc = "check" /\ stage = step
    /\ LET keys == KeysOf(step)
           cached == {k \in Range(keys) : hasKeyed(Cache, step, k)}
           calls == Uncached(Cache, step, keys)
       IN  /\ Reach(EntryPairs(step, Range(keys)))
           /\ Enter(step)
           /\ Emit(step, KeyedProgress(step, calls = << >>))
           /\ local' = (LocalName(step) :> [k \in cached |-> loadKeyed(Cache, step, k)])
                         @@ local
           /\ hits' = hits \cup EntryPairs(step, cached)
           /\ misses' = misses \cup EntryPairs(step, Range(keys) \ cached)
           /\ IF calls = << >>
              THEN Goto(NextOf(step)) /\ NoCall
              ELSE /\ pc' = "wait"
                   /\ tasks' = StartFanout(step, calls)
                   /\ firstErr' = 0
                   /\ invoked' = invoked \cup Started(tasks')
                   /\ UNCHANGED <<stage, result, failure>>
    /\ NoSave /\ RunConst

\* the results the run saves when callBatchParallel rejected: the await
\* rethrows before the save loop, so none
SavedOnReject(ts) == << >>

\* the results of a fan-out as merged into the run's list or map: by the
\* act, chapter or nodes the result itself names
TaskData(ts) ==
    [k \in {ts[i].data.key : i \in 1..Len(ts)} |->
        ts[CHOOSE i \in 1..Len(ts) : ts[i].data.key = k].data]

\* the key a result is saved under: uncachedActs[i].id and
\* uncachedBatches[r].index by position, result.data.chapterId by content
SaveKey(t) == IF t.step = "step3c" THEN t.data.key ELSE t.key

RECURSIVE SaveAll(_, _, _)
SaveAll(c, ts, t) ==
    IF ts = << >> THEN c
    ELSE SaveAll(saveKeyed(c, Head(ts).step, SaveKey(Head(ts)), Head(ts).data, t),
                 Tail(ts), t + 1)

CommitAll(ts) ==
    IF ts = << >>
    THEN UNCHANGED <<manifest, manifestFile, files, now>>
    ELSE LET c == SaveAll(Cache, ts, now)
         IN  /\ manifest' = saveManifest(c.m, now + Len(ts) - 1)
             /\ manifestFile' = <<manifest'>>
             /\ files' = c.f
             /\ now' = now + Len(ts)

\* the fan-out of a keyed stage has settled: save each result, then merge
JoinKeyed(step) ==
    /\ pc = "wait" /\ stage = step /\ Awaited
    /\ LET ts == IF Rejected(firstErr)
                 THEN SelectSeq(SavedOnReject(tasks), LAMBDA t : t.st = "ok")
                 ELSE tasks
       IN  /\ CommitAll(ts)
           /\ saved' = saved \cup {<<ts[i].step, SaveKey(ts[i])>> : i \in 1..Len(ts)}
           /\ IF Rejected(firstErr)
              THEN /\ Reject("task", tasks[firstErr].step, tasks[firstErr].key)
                   /\ UNCHANGED <<local, progress>>
              ELSE /\ Goto(NextOf(step))
                   /\ local' = [local EXCEPT ![LocalName(step)] = TaskData(ts) @@ @]
                   /\ Emit(step, SavedProgress(step))
    /\ lastSaved' = "none"
    /\ UNCHANGED <<deletes, hits, misses, validAtReach, danglingAtReach, stageSnap, order>>
    /\ NoCall /\ RunConst

\* step 3d: resolve the connections (never cached), then save the graph
Resolve ==
    /\ pc = "check" /\ stage = "step3d"
    /\ LET graph == resolvedArtifact(local.actStructure, local.chapterStructures,
                                       local.chapterGraphs)
       IN  /\ Commit(save(Cache, "step3", graph, now))
           /\ saved' = saved \cup {<<"step3", NoKey>>}
           /\ lastSaved' = "step3"
           /\ local' = ("graph" :> graph) @@ local
           /\ Finish("step3", graph)
    /\ Enter("step3d")
    /\ Emit("step3d", {85, 100})
    /\ UNCHANGED <<deletes, hits, misses, validAtReach, danglingAtReach, stageSnap>>
    /\ NoCall /\ RunConst

\* the local computation of steps 5 and 6
Compute(step, gameData) ==
    IF step = "step5" THEN enrichGameData(gameData) ELSE validatedArtifact(gameData)

\* steps 5 and 6: cache hit -> load, miss -> compute locally and save
CheckLocal(step) ==
    /\ pc = "check" /\ stage = step
    /\ Reach({<<step, NoKey>>})
    /\ Enter(step)
    /\ Emit(step, IF has(Cache, step) THEN {100} ELSE {0, 100})
    /\ LET input == IF step = "step5"
                    THEN assembleGameData(local.graph, local.worldData, local.allNodes)
                    ELSE local.gameData
       IN  IF has(Cache, step)
           THEN LET v == load(Cache, step)
                IN  /\ local' = ("gameData" :> v) @@ local
                    /\ hits' = hits \cup {<<step, NoKey>>}
                    /\ Finish(step, v)
                    /\ UNCHANGED misses /\ NoSave
           ELSE LET v == Compute(step, input)
                IN  /\ Commit(save(Cache, step, v, now))
                    /\ saved' = saved \cup {<<step, NoKey>>}
                    /\ lastSaved' = step
                    /\ local' = ("gameData" :> v) @@ local
                    /\ misses' = misses \cup {<<step, NoKey>>}
                    /\ Finish(step, v)
                    /\ UNCHANGED <<hits, deletes>>
    /\ NoCall /\ RunConst

PipeIdle ==
    /\ pc = "idle" /\ stage = "none" /\ run = 0
    /\ dryRun = FALSE
    /\ local = << >> /\ tasks = << >> /\ firstErr = 0
    /\ result = << >>
    /\ failure = [kind |-> "none", step |-> "none", key |-> NoKey]
    /\ hits = {} /\ misses = {} /\ validAtReach = {} /\ danglingAtReach = {}
    /\ invoked = {} /\ saved = {} /\ lastSaved = "none"
    /\ stageSnap = [m |-> << >>, f |-> << >>]
    /\ startSnap = [m |-> << >>, f |-> << >>]
    /\ prev = [ran |-> FALSE, done |-> FALSE, dry |-> FALSE, result |-> << >>,
               intact |-> TRUE]
    /\ touched = FALSE
    /\ lostOk = {}
    /\ order = << >> /\ progress = {}

Op(name, step, key, res) ==
    [op |-> name, step |-> step, key |-> key, result |-> res]

\* no cache directory yet; the target size, hence the mode, and the
\* concurrency option are fixed
Init ==
    /\ manifest = saveManifest(<< >>, 0)
    /\ manifestFile = << >>
    /\ files = << >>
    /\ now = 1
    /\ deletes = 0
    /\ lastOp = Op("new", "none", NoKey, "none")
    /\ before = [m |-> << >>, f |-> << >>]
    /\ PipeIdle
    /\ targetNodes \in TargetSizes
    /\ conc \in 1..MaxConc

Next ==
    \/ RunStart
    \/ \E file \in DOMAIN files : EnvDelete(file)
    \/ \E step \in RemoteSingle : CheckSingle(step)
    \/ \E step \in RemoteSingle : JoinSingle(step)
    \/ \E step \in KeyedStep : CheckKeyed(step)
    \/ \E step \in KeyedStep : JoinKeyed(step)
    \/ Resolve
    \/ \E step \in {"step5", "step6"} : CheckLocal(step)
    \/ \E i \in 1..Len(tasks) : TaskOk(i)
    \/ \E i \in 1..Len(tasks) : TaskErr(i)

vars == <<manifest, manifestFile, files, now, deletes, lastOp, before,
          pc, stage, run, targetNodes, dryRun, conc, local, tasks, firstErr, result, failure,
          hits, misses, validAtReach, danglingAtReach, invoked, saved, lastSaved,
          stageSnap, startSnap, prev, touched, lostOk,
          order, progress>>

Spec == Init /\ [][Next]_vars

\* ------------------------------------------------------------- CacheSpec
CacheKeys == {<<"a", "_", "1">>, <<"a", ".", "1">>, <<"b">>}

CacheInit ==
    /\ manifest = saveManifest(<< >>, 0)
    /\ manifestFile = <<manifest>>
    /\ files = << >>
    /\ now = 1
    /\ deletes = 0
    /\ lastOp = Op("new", "none", NoKey, "none")
    /\ before = [m |-> << >>, f |-> << >>]
    /\ PipeIdle
    /\ targetNodes = hierarchicalThreshold
    /\ conc = 1

\* the payload of the n-th save: every save writes a value of its own
Payload(t) == D(t, 0)

CHas(step) ==
    /\ lastOp' = Op("has", step, NoKey, IF has(Cache, step) THEN "true" ELSE "false")
    /\ before' = Snapshot
    /\ UNCHANGED <<cacheVars, pipeVars>>

CHasKeyed(step, key) ==
    /\ lastOp' = Op("hasKeyed", step, key,
                    IF hasKeyed(Cache, step, key) THEN "true" ELSE "false")
    /\ before' = Snapshot
    /\ UNCHANGED <<cacheVars, pipeVars>>

\* load after a has that returned true
CLoad(step) ==
    /\ has(Cache, step)
    /\ lastOp' = Op("load", step, NoKey, load(Cache, step))
    /\ before' = Snapshot
    /\ UNCHANGED <<cacheVars, pipeVars>>

CLoadKeyed(step, key) ==
    /\ hasKeyed(Cache, step, key)
    /\ lastOp' = Op("loadKeyed", step, key, loadKeyed(Cache, step, key))
    /\ before' = Snapshot
    /\ UNCHANGED <<cacheVars, pipeVars>>

CSave(step) ==
    /\ now <= MaxSaves
    /\ Commit(save(Cache, step, Payload(now), now))
    /\ lastOp' = Op("save", step, NoKey, Payload(now))
    /\ before' = Snapshot
    /\ UNCHANGED <<deletes, pipeVars>>

CSaveKeyed(step, key) ==
    /\ now <= MaxSaves
    /\ Commit(saveKeyed(Cache, step, key, Payload(now), now))
    /\ lastOp' = Op("saveKeyed", step, key, Payload(now))
    /\ before' = Snapshot
    /\ UNCHANGED <<deletes, pipeVars>>

\* the user removes an artifact file from the cache directory
CDelete(file) ==
    /\ deletes < MaxDeletes
    /\ file \in DOMAIN files
    /\ files' = Restrict(files, DOMAIN files \ {file})
    /\ deletes' = deletes + 1
    /\ lastOp' = Op("unlink", "none", NoKey, "none")
    /\ before' = Snapshot
    /\ UNCHANGED <<manifest, manifestFile, now, pipeVars>>

CacheNext ==
    \/ \E step \in SingleStep : CHas(step)
    \/ \E step \in KeyedStep, key \in CacheKeys : CHasKeyed(step, key)
    \/ \E step \in SingleStep : CLoad(step)
    \/ \E step \in KeyedStep, key \in CacheKeys : CLoadKeyed(step, key)
    \/ \E step \in SingleStep : CSave(step)
    \/ \E step \in KeyedStep, key \in CacheKeys : CSaveKeyed(step, key)
    \/ \E file \in DOMAIN files : CDelete(file)

CacheSpec == CacheInit /\ [][CacheNext]_vars

\* ---------------------------------------------------------------- ExecSpec
\* One fan-out of the run in isolation: a keyed stage has been reached with
\* n uncached partitions and the run awaits callBatchParallel(calls, conc).
ExecKeys(step, n) ==
    CASE step = "step3b" -> [i \in 1..n |-> ActId(i)]
      [] step = "step3c" -> [i \in 1..n |-> ChapterId(i)]
      [] step = "step4"  -> [i \in 1..n |-> BatchKey(i - 1)]

ExecLocal(step, n) ==
    CASE step = "step3b" -> [summary |-> D(1, 1), worldData |-> D(1, 0),
                             actStructure |-> D(1, n), chapterStructures |-> << >>]
      [] step = "step3c" -> [summary |-> D(1, 1), worldData |-> D(1, 0),
                             actStructure |-> D(1, n),
                             chapterStructures |->
                                 [k \in Range(ExecKeys("step3b", n)) |->
                                     [gen |-> 1, n |-> 1, key |-> k]],
                             chapterGraphs |-> << >>]
      [] step = "step4"  -> [summary |-> D(1, 1), worldData |-> D(1, 0),
                             graph |-> D(1, batchSize * n), allNodes |-> << >>]

ExecInit ==
    /\ manifest = saveManifest(<< >>, 0)
    /\ manifestFile = <<manifest>>
    /\ files = << >>
    /\ now = 1
    /\ deletes = 0
    /\ lastOp = Op("new", "none", NoKey, "none")
    /\ before = [m |-> << >>, f |-> << >>]
    /\ pc = "wait"
    /\ stage \in KeyedStep
    /\ run = 1
    /\ targetNodes = IF stage = "step4" THEN hierarchicalThreshold
                     ELSE hierarchicalThreshold + 1
    /\ dryRun = FALSE
    /\ conc \in 1..MaxConc
    /\ tasks \in {StartFanout(stage, ExecKeys(stage, n)) : n \in 0..MaxTasks}
    /\ local = ExecLocal(stage, Len(tasks))
    /\ firstErr = 0
    /\ result = << >>
    /\ failure = [kind |-> "none", step |-> "none", key |-> NoKey]
    /\ hits = {}
    /\ misses = EntryPairs(stage, {tasks[i].key : i \in 1..Len(tasks)})
    /\ validAtReach = {} /\ danglingAtReach = {}
    /\ invoked = Started(tasks)
    /\ saved = {} /\ lastSaved = "none"
    /\ stageSnap = [m |-> << >>, f |-> << >>]
    /\ startSnap = [m |-> << >>, f |-> << >>]
    /\ prev = [ran |-> FALSE, done |-> FALSE, dry |-> FALSE, result |-> << >>,
               intact |-> TRUE]
    /\ touched = FALSE
    /\ lostOk = {}
    /\ order = << >>
    /\ progress = {}

ExecNext ==
    \/ \E i \in 1..Len(tasks) : TaskOk(i)
    \/ \E i \in 1..Len(tasks) : TaskErr(i)
    \/ \E step \in KeyedStep : JoinKeyed(step)

ExecSpec == ExecInit /\ [][ExecNext]_vars


\* ================================================================ claims
LaterSteps(step) ==
    {PipelineOrder[i] : i \in (IndexOf(PipelineOrder, step) + 1)..Len(PipelineOrder)}

Earlier(s, t) == IndexOf(PipelineOrder, s) < IndexOf(PipelineOrder, t)

FilesOfStep(f, step) == {fn \in DOMAIN f : fn[1] = step}

\* the <<step, key>> pairs of a cache that have a manifest entry and a file
ValidPairs(c) ==
    {p \in {<<st, NoKey>> : st \in DOMAIN c.m \ KeyedStep}
           \cup UNION {EntryPairs(st, DOMAIN c.m[st]) : st \in DOMAIN c.m \cap KeyedStep} :
        FileOf(c, p) \in DOMAIN c.f}

\* C1: right after the pipeline's cache.save(K, data) of an un-partitioned
\* stage K, no stage after K in the pipeline order has a manifest entry or
\* an artifact file.
C1_SaveLeavesNothingLater ==
    lastSaved # "none" =>
        \A st \in LaterSteps(lastSaved) :
            st \notin DOMAIN manifest.steps /\ FilesOfStep(files, st) = {}

\* C2: in a run, once some stage was a cache miss (recomputed), no later
\* stage of that run is loaded from the cache.
C2_RecomputeForcesLater ==
    \A p \in misses, q \in hits : ~Earlier(p[1], q[1])

\* C3: a content batch whose task completed in the previous run, which
\* failed during Content generation, is found in the cache by the next run
\* and is not generated again.
C3_CompletedBatchesKept ==
    \A k \in lostOk : <<"step4", k>> \notin misses /\ <<"step4", k>> \notin invoked

\* C4: no remote generation is started for a stage or partition that had a
\* valid cache entry when its stage was reached.
C4_NoCallOnValidEntry == invoked \cap validAtReach = {}

\* C4 witness: a keyed stage reached with one partition valid and another
\* one generated
C4_Witness ==
    \E p \in validAtReach, q \in invoked : p[1] = q[1] /\ p[1] \in KeyedStep

FullAt(c, dry) ==
    LET valid == ValidPairs(c)
    IN  /\ {<<"step1", NoKey>>, <<"step2", NoKey>>, <<"step3", NoKey>>} \subseteq valid
        /\ ~dry =>
             /\ {<<"step5", NoKey>>, <<"step6", NoKey>>} \subseteq valid
             /\ \A i \in 1..createBatches(c.f[SingleFile("step3")].n, batchSize) :
                  <<"step4", BatchKey(i - 1)>> \in valid

\* C6: a run that finds every stage and partition valid saves nothing,
\* leaves the manifest entries (timestamps included) and the artifacts as
\* they were, and returns what the previous run with the same input returned.
C6_Idempotent ==
    pc = "done" /\ ~touched /\ FullAt(startSnap, dryRun) =>
        /\ saved = {}
        /\ DiskSteps = startSnap.m
        /\ manifest.steps = startSnap.m
        /\ files = startSnap.f
        /\ prev.done /\ prev.dry = dryRun /\ prev.intact => result = prev.result

\* C6 witness: a full run repeated on its unmodified, complete cache
C6_Witness ==
    /\ pc = "done" /\ ~dryRun /\ FullAt(startSnap, dryRun)
    /\ prev.done /\ ~prev.dry /\ prev.intact

\* C7: saveKeyed(S, b, data) leaves every other partition a of S present,
\* and loadKeyed(S, a) still returns what it returned before.
C7_PartitionIsolation ==
    lastOp.op = "saveKeyed" =>
        \A a \in CacheKeys \ {lastOp.key} :
            <<lastOp.step, a>> \in ValidPairs(before) =>
                /\ <<lastOp.step, a>> \in ValidPairs(Cache)
                /\ files[FileOf(Cache, <<lastOp.step, a>>)]
                     = before.f[FileOf(before, <<lastOp.step, a>>)]

\* C8: the first saveKeyed under S (no map for S yet) removes the entries
\* and artifacts of every stage after S; a saveKeyed while the map of S
\* exists removes no entry or artifact of a later stage.
C8_FirstKeyedSaveInvalidates ==
    lastOp.op = "saveKeyed" =>
        IF lastOp.step \notin DOMAIN before.m
        THEN \A st \in LaterSteps(lastOp.step) :
                 st \notin DOMAIN manifest.steps /\ FilesOfStep(files, st) = {}
        ELSE \A st \in LaterSteps(lastOp.step) :
                 /\ st \in DOMAIN before.m <=> st \in DOMAIN manifest.steps
                 /\ st \in DOMAIN before.m => manifest.steps[st] = before.m[st]
                 /\ FilesOfStep(files, st) = FilesOfStep(before.f, st)

\* C9: has and hasKeyed return true exactly when the manifest holds the
\* entry and the file it names exists, and they change neither the manifest
\* nor any file.
C9_HasIffEntryAndFile ==
    /\ lastOp.op = "has" =>
         /\ lastOp.result = "true" <=>
              /\ lastOp.step \in DOMAIN manifest.steps
              /\ manifest.steps[lastOp.step].file \in DOMAIN files
         /\ Snapshot = before /\ manifestFile = <<manifest>>
    /\ lastOp.op = "hasKeyed" =>
         /\ lastOp.result = "true" <=>
              /\ lastOp.step \in DOMAIN manifest.steps
              /\ lastOp.key \in DOMAIN manifest.steps[lastOp.step]
              /\ manifest.steps[lastOp.step][lastOp.key].file \in DOMAIN files
         /\ Snapshot = before /\ manifestFile = <<manifest>>

\* C9 witness: hasKeyed asked about an entry whose file is gone
C9_Witness ==
    /\ lastOp.op = "hasKeyed" /\ lastOp.result = "false"
    /\ lastOp.step \in DOMAIN manifest.steps
    /\ lastOp.key \in DOMAIN manifest.steps[lastOp.step]

\* C10 as stated: a run that reaches a stage whose manifest entry names a
\* missing artifact aborts.
C10_CorruptionAborts == danglingAtReach # {} => pc = "failed"

\* C10 amended: a stage or partition whose manifest entry names a missing
\* artifact is a cache miss: it is never loaded, and a run that completes
\* has regenerated it and saved it over the old entry.
C10_DanglingIsRegenerated ==
    /\ hits \subseteq validAtReach
    /\ \A p \in danglingAtReach :
         /\ p \in misses
         /\ pc = "done" /\ ~touched =>
              p \in saved /\ p \in ValidPairs([m |-> DiskSteps, f |-> files])

\* C10 witness: a completed run that had reached a partition with a
\* dangling entry
C10_Witness ==
    pc = "done" /\ \E p \in danglingAtReach : p[1] \in KeyedStep /\ p \in saved

\* ------------------------------------------------------------ stage order
\* the position of a step's stage in Summary, World, Graph, Content,
\* Enrichment, Validation
StageRank(step) ==
    CASE step = "step1" -> 1
      [] step = "step2" -> 2
      [] step \in {"step3", "step3a", "step3b", "step3c", "step3d"} -> 3
      [] step = "step4" -> 4
      [] step = "step5" -> 5
      [] step = "step6" -> 6

\* the value the step leaves in the run is complete: every key of a keyed
\* step has its loaded or generated result
Complete(step) ==
    CASE step \in {"step3b", "step3c", "step4"} ->
             /\ LocalName(step) \in DOMAIN local
             /\ DOMAIN local[LocalName(step)] = Range(KeysOf(step))
      [] step = "step3d" -> "graph" \in DOMAIN local
      [] OTHER -> LocalName(step) \in DOMAIN local

\* C11: in every run the stages begin in the fixed order Summary, World,
\* Graph, Content, Enrichment, Validation, none twice and none skipped, and
\* a step begins only when every task of the run has settled and every
\* step begun before it has its complete value (cache hits and generated
\* results); the Graph stage is complete once its last sub-stage is.
C11_StagesInOrder ==
    /\ Len(order) > 0 => order[1] = "step1"
    /\ \A i \in 1..Len(order) : \A j \in 1..Len(order) :
           i < j => /\ order[i] # order[j]
                    /\ StageRank(order[i]) <= StageRank(order[j])
                    /\ StageRank(order[i]) < StageRank(order[j]) => Complete(order[i])
    /\ \A i \in 1..(Len(order) - 1) :
           StageRank(order[i + 1]) <= StageRank(order[i]) + 1
    /\ pc = "check" => /\ \A i \in 1..Len(tasks) : tasks[i].st = "ok"
                       /\ \A i \in 1..Len(order) :
                              \/ order[i] = "step3" /\ StageRank(stage) = 3
                              \/ Complete(order[i])

\* a full run whose Content stage mixed a cache hit with a generated batch
C11_Witness ==
    /\ pc = "done" /\ ~dryRun
    /\ order = <<"step1", "step2", "step3", "step4", "step5", "step6">>
    /\ \E k \in Range(KeysOf("step4")) : <<"step4", k>> \in hits
    /\ \E k \in Range(KeysOf("step4")) : <<"step4", k>> \in saved


\* ------------------------------------------------------- hierarchical mode
SubSteps == <<"step3a", "step3b", "step3c", "step3d">>

\* the sub-stages of the Graph stage in the order the run began them
SubOrder == SelectSeq(order, LAMBDA s : s \in Range(SubSteps))

IsPrefix(a, b) == Len(a) <= Len(b) /\ a = SubSeq(b, 1, Len(a))

\* the <<step, key>> pairs the run read from or wrote to the cache
Accessed == hits \cup misses \cup saved \cup validAtReach \cup danglingAtReach

C14_DryRunStopsAfterGraph ==
    dryRun =>
        /\ \A s \in Range(order) : StageRank(s) <= 3
        /\ \A p \in Accessed \cup invoked : StageRank(p[1]) <= 3
        /\ \A e \in progress : e[1] \in {"storySummary", "worldBuilding", "storyGraph"}
        /\ stage \notin {"step4", "step5", "step6"}
        /\ "graph" \in DOMAIN local => pc = "done"
        /\ pc = "done" =>
             /\ result = <<assembleGameData(local.graph, local.worldData, << >>)>>
             /\ result[1].nodes = << >>
             /\ ~result[1].enriched /\ ~result[1].validated

\* a dry run that generated and saved its graph and returned
C14_Witness ==
    /\ dryRun /\ pc = "done"
    /\ <<"step3", NoKey>> \in saved
    /\ result # << >>


\* ------------------------------------------------------- mutate after join
\* a task of the pending fan-out is running, or is queued and will start
Unsettled(ts, fe) ==
    \E i \in 1..Len(ts) : ts[i].st = "running" \/ (ts[i].st = "queued" /\ fe = 0)

\* C15: while a fan-out of the run has an unsettled task, no step of the run
\* writes the cache (manifest, manifest file, artifact files) or changes the
\* run's chapter list, graph or content map; results are saved and merged
\* only once the whole fan-out has settled.
C15_MutateAfterJoin ==
    [][(pc = "wait" /\ Unsettled(tasks, firstErr)) =>
           UNCHANGED <<manifest, manifestFile, files, local, saved>>]_vars

\* a fan-out in flight: one task has returned, its result is neither saved
\* nor merged, and another task is still running
C15_Witness ==
    /\ pc = "wait" /\ stage \in KeyedStep
    /\ \E i \in 1..Len(tasks) : \E j \in 1..Len(tasks) :
          /\ tasks[i].st = "ok" /\ tasks[j].st = "running"
          /\ <<stage, tasks[i].key>> \notin saved
          /\ tasks[i].key \notin DOMAIN local[LocalName(stage)]


\* ------------------------------------------------------- the task executor
\* C16: callBatchParallel never has more than `concurrency` calls started
\* and unsettled; calls start in input order; and as long as no call has
\* failed and a call is still queued, every completion starts the next
\* queued call, so exactly `concurrency` calls are in flight.
C16_AtMostConcInFlight ==
    /\ Cardinality(Running(tasks)) <= conc
    /\ \A i \in Queued(tasks) : \A j \in 1..Len(tasks) :
           tasks[j].st # "queued" => j < i
    /\ (pc = "wait" /\ firstErr = 0 /\ Queued(tasks) # {}) =>
           Cardinality(Running(tasks)) = conc

\* more calls than the limit: one has completed, a call beyond the first
\* `concurrency` ones took its place, and a call is still queued
C16_Witness ==
    /\ pc = "wait" /\ firstErr = 0
    /\ Len(tasks) > conc
    /\ \E i \in 1..Len(tasks) : tasks[i].st = "ok"
    /\ \E i \in Running(tasks) : i > conc
    /\ Queued(tasks) # {}

\* C17: whatever the order in which the calls complete, results[i] is the
\* result of calls[i] and the slot of a call that has not returned is empty,
\* so every artifact saved after the fan-out is stored under the act id,
\* chapter id or batch index of the call that produced it.
C17_ResultsKeepInputOrder ==
    /\ \A i \in 1..Len(tasks) :
           IF tasks[i].st = "ok" THEN tasks[i].data.key = tasks[i].key
           ELSE tasks[i].data = NoResult
    /\ \A step \in KeyedStep \cap DOMAIN manifest.steps :
           \A key \in DOMAIN manifest.steps[step] :
               LET file == manifest.steps[step][key].file
               IN  file \in DOMAIN files => files[file].key = key

\* the second call has completed before the first one, and a later state
\* has the results of a fan-out completed out of order saved
C17_Witness ==
    /\ pc = "wait"
    /\ Len(tasks) >= 2
    /\ tasks[1].st = "running"
    /\ tasks[2].st = "ok"
    /\ tasks[2].data.key = tasks[2].key

Failed(ts) == {i \in 1..Len(ts) : ts[i].st = "err"}

\* C18: once a call has failed no queued call is started any more; calls
\* already started are not cancelled and the fan-out rejects only when all
\* of them have settled; the error it rejects with is the error of the call
\* that failed first, and it is the single error of the run.
C18_FailFastAfterDrain ==
    [][/\ firstErr' # 0 => Queued(tasks') = Queued(tasks)
       /\ \A i \in Running(tasks) : tasks'[i].st \in {"running", "ok", "err"}
       /\ (firstErr = 0 /\ firstErr' # 0) =>
              Failed(tasks) = {} /\ Failed(tasks') = {firstErr'}
       /\ firstErr # 0 => firstErr' = firstErr
       /\ (pc = "wait" /\ pc' = "failed") =>
              /\ Running(tasks) = {}
              /\ failure' = [kind |-> "task", step |-> tasks[firstErr].step,
                             key |-> tasks[firstErr].key]
       /\ (pc = "wait" /\ pc' = "check") => firstErr = 0
       /\ pc = "failed" => pc' = "failed" /\ failure' = failure]_vars

\* two calls failed, the second call first; a queued call was never started
\* and the fan-out rejected with the error of the second call
C18_Witness ==
    /\ pc = "failed"
    /\ Cardinality(Failed(tasks)) >= 2
    /\ firstErr # SetMin(Failed(tasks))
    /\ Queued(tasks) # {}
    /\ failure.key = tasks[firstErr].key


RECURSIVE Concat(_)
Concat(seqs) == IF seqs = << >> THEN << >> ELSE Head(seqs) \o Concat(Tail(seqs))

\* chapterStructures.flatMap((cs) => cs.chapters)
flatChapters(chapterStructures) ==
    Concat([i \in 1..Len(chapterStructures) |-> chapterStructures[i].chapters])

\* Array.find: << >> when no element matches, else <<the first match>>
findChapter(chapters, chapterId) ==
    LET hit == {i \in 1..Len(chapters) : chapters[i].id = chapterId}
    IN  IF hit = {} THEN << >> ELSE <<chapters[SetMin(hit)]>>

\* mutant: a later declaration of a port replaces the earlier one
RECURSIVE setPortsLastWins(_, _, _)
setPortsLastWins(ports, nodes, portToNodeId) ==
    IF ports = << >> THEN portToNodeId
    ELSE setPortsLastWins(Tail(ports), nodes,
             IF Len(nodes) > 0
             THEN (Head(ports) :> nodes[1].id) @@ portToNodeId
             ELSE portToNodeId)

\* the entry ports of a chapter map to its first node unless already mapped
RECURSIVE setPorts(_, _, _)
setPorts(ports, nodes, portToNodeId) ==
    IF ports = << >> THEN portToNodeId
    ELSE setPorts(Tail(ports), nodes,
             IF Len(nodes) > 0 /\ Head(ports) \notin DOMAIN portToNodeId
             THEN (Head(ports) :> nodes[1].id) @@ portToNodeId
             ELSE portToNodeId)

RECURSIVE buildPortMap(_, _, _)
buildPortMap(chapterGraphs, chapters, portToNodeId) ==
    IF chapterGraphs = << >> THEN portToNodeId
    ELSE LET cg == Head(chapterGraphs)
             chapter == findChapter(chapters, cg.chapterId)
         IN  buildPortMap(Tail(chapterGraphs), chapters,
                 IF chapter # << >>
                 THEN setPorts(chapter[1].entryPorts, cg.nodes, portToNodeId)
                 ELSE portToNodeId)

\* the nodes of all chapter graphs in merge order
mergeNodes(chapterGraphs) ==
    Concat([i \in 1..Len(chapterGraphs) |-> chapterGraphs[i].nodes])

NodeIdsOf(nodes) == {nodes[i].id : i \in 1..Len(nodes)}

\* mutant: port names are not looked up
resolveEntryKept(conn, allNodeIds, portToNodeId) == conn

\* mutant: the port map is consulted before the node ids
resolveEntryPortFirst(conn, allNodeIds, portToNodeId) ==
    IF conn \in DOMAIN portToNodeId /\ portToNodeId[conn] # ""
    THEN portToNodeId[conn]
    ELSE conn

\* one entry of connections / backConnections: a node id is kept, a mapped
\* port name is replaced (if (resolved): an empty id counts as unmapped),
\* anything else is kept as-is
resolveEntry(conn, allNodeIds, portToNodeId) ==
    IF conn \in allNodeIds THEN conn
    ELSE IF conn \in DOMAIN portToNodeId /\ portToNodeId[conn] # ""
         THEN portToNodeId[conn]
         ELSE conn

rewriteNode(node, allNodeIds, portToNodeId) ==
    [node EXCEPT
       !.connections = [i \in 1..Len(@) |-> resolveEntry(@[i], allNodeIds, portToNodeId)],
       !.backConnections = [i \in 1..Len(@) |-> resolveEntry(@[i], allNodeIds, portToNodeId)]]

isHub(node) == node.type = "checkpoint" \/ node.type = "choice"

\* mutant: the location of the node is not looked at
injectBackFirstHub(node, hubNodes) ==
    IF node.type = "ending" \/ isHub(node) \/ Len(node.backConnections) # 0
    THEN node
    ELSE IF hubNodes = << >> THEN node
         ELSE [node EXCEPT !.backConnections = <<hubNodes[1].id>>]

\* mutant: a hub is appended whether or not the node has backConnections
injectBackAlways(node, hubNodes) ==
    IF node.type = "ending" \/ isHub(node)
    THEN node
    ELSE LET same == {i \in 1..Len(hubNodes) : hubNodes[i].locationId = node.locationId}
         IN  IF hubNodes = << >> THEN node
             ELSE [node EXCEPT !.backConnections =
                      @ \o <<hubNodes[IF same # {} THEN SetMin(same) ELSE 1].id>>]

\* a node without backConnections gets one to the first hub of its location,
\* else to the first hub
injectBack(node, hubNodes) ==
    IF node.type = "ending" \/ isHub(node) \/ Len(node.backConnections) # 0
    THEN node
    ELSE LET same == {i \in 1..Len(hubNodes) : hubNodes[i].locationId = node.locationId}
         IN  IF hubNodes = << >> THEN node
             ELSE [node EXCEPT !.backConnections =
                      <<hubNodes[IF same # {} THEN SetMin(same) ELSE 1].id>>]

\* the nodes of the returned graph
resolvedNodes(chapterStructures, chapterGraphs) ==
    LET portToNodeId == buildPortMap(chapterGraphs, flatChapters(chapterStructures), << >>)
        allNodes == mergeNodes(chapterGraphs)
        rewritten == [i \in 1..Len(allNodes) |->
                         rewriteNode(allNodes[i], NodeIdsOf(allNodes), portToNodeId)]
        hubNodes == SelectSeq(rewritten, isHub)
    IN  [i \in 1..Len(rewritten) |-> injectBack(rewritten[i], hubNodes)]

\* mutant: the game start port is not looked up
startNodeFirst(portToNodeId, allNodes) ==
    IF Len(allNodes) > 0 THEN allNodes[1].id ELSE ""

\* portToNodeId.get('game_start') ?? allNodes[0]?.id ?? ''
startNode(portToNodeId, allNodes) ==
    IF "game_start" \in DOMAIN portToNodeId THEN portToNodeId["game_start"]
    ELSE IF Len(allNodes) > 0 THEN allNodes[1].id ELSE ""

\* the node ids and description of each act (the act number is left out)
graphActStructure(actStructure, chapterStructures, chapterGraphs) ==
    [a \in 1..Len(actStructure.acts) |->
        LET act == actStructure.acts[a]
            actChapters == SelectSeq(flatChapters(chapterStructures),
                                     LAMBDA c : c.actId = act.id)
            actGraphs == SelectSeq(chapterGraphs,
                             LAMBDA cg : \E i \in 1..Len(actChapters) :
                                             actChapters[i].id = cg.chapterId)
            actNodes == mergeNodes(actGraphs)
        IN  [nodeIds |-> [i \in 1..Len(actNodes) |-> actNodes[i].id],
             description |-> act.summary]]

resolveConnections(actStructure, chapterStructures, chapterGraphs) ==
    [nodes |-> resolvedNodes(chapterStructures, chapterGraphs),
     startNodeId |-> startNode(buildPortMap(chapterGraphs,
                                            flatChapters(chapterStructures), << >>),
                               mergeNodes(chapterGraphs)),
     actStructure |-> graphActStructure(actStructure, chapterStructures, chapterGraphs)]

\* the nodes are rewritten in place: after the call the chapter graphs passed
\* in hold the resolved nodes
RECURSIVE mutatedGraphs(_, _)
mutatedGraphs(chapterGraphs, nodes) ==
    IF chapterGraphs = << >> THEN << >>
    ELSE LET n == Len(Head(chapterGraphs).nodes)
         IN  <<[Head(chapterGraphs) EXCEPT !.nodes = SubSeq(nodes, 1, n)]>>
             \o mutatedGraphs(Tail(chapterGraphs), SubSeq(nodes, n + 1, Len(nodes)))


\* -------------------------------------------------------------- ResolveSpec
\* resolveConnections called on bounded inputs, then again on the chapter
\* graphs it has rewritten.  local holds the arguments, before the arguments
\* as they were before the last call, result the returned graph, prev.result
\* the graph of the call before, run the number of calls.
NodeId(i) == "n" \o ToString(i)

\* what a generated scene node can look like apart from its id: connection
\* entries are node ids, declared ports ("p1", "game_start", "n2") or names
\* nothing declares ("x")
NodeShapes ==
    { [type |-> "narrative",  locationId |-> "l1",
       connections |-> <<"p1">>,               backConnections |-> << >>],
      [type |-> "narrative",  locationId |-> "l2",
       connections |-> <<"n1", "x">>,          backConnections |-> <<"p1", "x">>],
      [type |-> "choice",     locationId |-> "l1",
       connections |-> <<"n2", "game_start">>, backConnections |-> << >>],
      [type |-> "checkpoint", locationId |-> "l2",
       connections |-> <<"x">>,                backConnections |-> <<"n1">>],
      [type |-> "ending",     locationId |-> "l1",
       connections |-> << >>,                  backConnections |-> << >>] }

SceneNode(i, shape) ==
    [id |-> NodeId(i), type |-> shape.type, locationId |-> shape.locationId,
     connections |-> shape.connections, backConnections |-> shape.backConnections]

\* the entry ports a chapter can declare
PortLists == { << >>, <<"game_start", "p1">>, <<"n2", "p1">> }

\* the chapter ids of the two chapter graphs in merge order ("c9": a graph
\* whose chapter no chapter structure lists)
GraphOrders == { <<"c1", "c2">>, <<"c2", "c1">>, <<"c1", "c9">> }

\* the arguments of a call: the nodes n1, n2, ... of the given shapes, the
\* first `split` of them in the first chapter graph
ResolveInput(shapes, split, ports, ids) ==
      [actStructure |->
          [acts |-> <<[id |-> "act_1", summary |-> "s1"],
                      [id |-> "act_2", summary |-> "s2"]>>],
       chapterStructures |->
          <<[chapters |-> <<[id |-> "c1", actId |-> "act_1", entryPorts |-> ports[1]]>>],
            [chapters |-> <<[id |-> "c2", actId |-> "act_2", entryPorts |-> ports[2]]>>]>>,
       chapterGraphs |->
          <<[chapterId |-> ids[1],
             nodes |-> [i \in 1..split |-> SceneNode(i, shapes[i])]],
            [chapterId |-> ids[2],
             nodes |-> [i \in 1..(Len(shapes) - split) |->
                           SceneNode(split + i, shapes[split + i])]]>>]

ResolveInit ==
    /\ manifest = saveManifest(<< >>, 0)
    /\ manifestFile = << >>
    /\ files = << >>
    /\ now = 1
    /\ deletes = 0
    /\ lastOp = Op("new", "none", NoKey, "none")
    /\ \E n \in 0..MaxNodes : \E shapes \in [1..n -> NodeShapes] : \E split \in 0..n :
       \E ports \in PortLists \X PortLists : \E ids \in GraphOrders :
           local = ResolveInput(shapes, split, ports, ids)
    /\ before = local
    /\ pc = "idle" /\ stage = "step3d" /\ run = 0
    /\ targetNodes = hierarchicalThreshold + 1
    /\ dryRun = FALSE /\ conc = 1
    /\ tasks = << >> /\ firstErr = 0
    /\ result = << >>
    /\ failure = [kind |-> "none", step |-> "none", key |-> NoKey]
    /\ hits = {} /\ misses = {} /\ validAtReach = {} /\ danglingAtReach = {}
    /\ invoked = {} /\ saved = {} /\ lastSaved = "none"
    /\ stageSnap = [m |-> << >>, f |-> << >>]
    /\ startSnap = [m |-> << >>, f |-> << >>]
    /\ prev = [ran |-> FALSE, done |-> FALSE, dry |-> FALSE, result |-> << >>,
               intact |-> TRUE]
    /\ touched = FALSE
    /\ lostOk = {}
    /\ order = << >> /\ progress = {}

\* const graph = resolveConnections(actStructure, chapterStructures, chapterGraphs)
CallResolve ==
    /\ run < MaxResolves
    /\ LET graph == resolveConnections(local.actStructure, local.chapterStructures,
                                       local.chapterGraphs)
       IN  /\ result' = <<graph>>
           /\ local' = [local EXCEPT
                           !.chapterGraphs = mutatedGraphs(@, graph.nodes)]
    /\ before' = local
    /\ prev' = [prev EXCEPT !.ran = pc = "done", !.result = result]
    /\ run' = run + 1
    /\ pc' = "done"
    /\ UNCHANGED <<manifest, manifestFile, files, now, deletes, lastOp>>
    /\ UNCHANGED <<stage, targetNodes, dryRun, conc, tasks, firstErr, failure,
                   hits, misses, validAtReach, danglingAtReach, invoked, saved,
                   lastSaved, stageSnap, startSnap, touched, lostOk, order, progress>>

ResolveNext == CallResolve

ResolveSpec == ResolveInit /\ [][ResolveNext]_vars


\* ------------------------------------------------- the resolved connections
\* the arguments of the last call as they were when it was made
PortsBefore ==
    buildPortMap(before.chapterGraphs, flatChapters(before.chapterStructures), << >>)

NodesBefore == mergeNodes(before.chapterGraphs)

\* the forward and the back connection list of a node
Lists(node) == <<node.connections, node.backConnections>>

\* C20: in the graph returned by resolveConnections every entry of every
\* node's forward and back connection list is the id of a node of the graph.
C20_AllEntriesAreNodeIds ==
    pc = "done" =>
        \A i \in 1..Len(result[1].nodes) : \A l \in 1..2 :
            \A j \in 1..Len(Lists(result[1].nodes[i])[l]) :
                Lists(result[1].nodes[i])[l][j] \in NodeIdsOf(result[1].nodes)

\* C20 (amended): in the returned graph every connection entry is the id of
\* a node of the graph, or it is an entry that named neither a node nor a
\* mapped port and stands unchanged at its place; an entry that named a
\* mapped port is replaced by a node id, so no mapped port name remains.
C20_EntriesResolvedOrKept ==
    pc = "done" =>
        /\ Len(result[1].nodes) = Len(NodesBefore)
        /\ \A i \in 1..Len(result[1].nodes) : \A l \in 1..2 :
             LET out == Lists(result[1].nodes[i])[l]
                 in == Lists(NodesBefore[i])[l]
                 ids == NodeIdsOf(result[1].nodes)
             IN  /\ \A j \in 1..Len(in) :
                        /\ j <= Len(out)
                        /\ out[j] \in ids \/ out[j] = in[j]
                        /\ in[j] \in DOMAIN PortsBefore => out[j] \in ids
                 /\ \A j \in 1..Len(out) : j > Len(in) => out[j] \in ids

\* a first call that replaced a mapped port name by a node id and left a
\* name nothing declares in the graph
C20_Witness ==
    /\ pc = "done" /\ run = 1
    /\ \E i \in 1..Len(result[1].nodes) : \E l \in 1..2 :
         \E j \in 1..Len(Lists(NodesBefore[i])[l]) :
             /\ Lists(NodesBefore[i])[l][j] \in DOMAIN PortsBefore
             /\ Lists(NodesBefore[i])[l][j] \notin NodeIdsOf(NodesBefore)
             /\ Lists(result[1].nodes[i])[l][j] \in NodeIdsOf(result[1].nodes)
    /\ \E i \in 1..Len(result[1].nodes) : \E l \in 1..2 :
         \E j \in 1..Len(Lists(result[1].nodes[i])[l]) :
             Lists(result[1].nodes[i])[l][j] \notin NodeIdsOf(result[1].nodes)


\* ------------------------------------------------------------ the port map
\* the chapter graphs, by position in merge order, whose chapter declares
\* the port and that hold at least one node
Declaring(port) ==
    {g \in 1..Len(before.chapterGraphs) :
        /\ Len(before.chapterGraphs[g].nodes) > 0
        /\ \E cs \in Range(before.chapterStructures) : \E c \in Range(cs.chapters) :
               c.id = before.chapterGraphs[g].chapterId /\ port \in Range(c.entryPorts)}

DeclaredPorts ==
    UNION {Range(c.entryPorts) : c \in UNION {Range(cs.chapters) :
                                       cs \in Range(before.chapterStructures)}}

\* C22: every entry port declared by a chapter that has generated nodes is
\* mapped to the first node of the first such chapter in merge order (the
\* order of the chapter graphs); a later chapter declaring the same port
\* does not change the mapping, and nothing else is mapped.
C22_FirstPortWins ==
    pc = "done" =>
        /\ DOMAIN PortsBefore = {p \in DeclaredPorts : Declaring(p) # {}}
        /\ \A p \in DOMAIN PortsBefore :
              PortsBefore[p] = before.chapterGraphs[SetMin(Declaring(p))].nodes[1].id

\* both chapters declare "p1", both have nodes, and a connection entry "p1"
\* was replaced by the first node of the first chapter graph
C22_Witness ==
    /\ pc = "done" /\ run = 1
    /\ Cardinality(Declaring("p1")) = 2
    /\ before.chapterGraphs[1].chapterId = "c2"
    /\ \E i \in 1..Len(NodesBefore) :
          /\ NodesBefore[i].connections = <<"p1">>
          /\ result[1].nodes[i].connections = <<before.chapterGraphs[1].nodes[1].id>>
          /\ before.chapterGraphs[1].nodes[1].id # before.chapterGraphs[2].nodes[1].id


\* --------------------------------------------------- the rewrite of entries
\* what the rewrite makes of one entry of a connection list
Rewritten(entry) ==
    IF entry \in NodeIdsOf(NodesBefore) THEN entry
    ELSE IF entry \in DOMAIN PortsBefore THEN PortsBefore[entry]
    ELSE entry

\* C23: every forward and back connection entry is rewritten on its own and
\* stays at its place: an entry that is the id of a node is kept, also when
\* a port has the same name; an entry that is a mapped port name becomes the
\* mapped node id; any other entry is unchanged.  The lists keep their
\* length (a back connection list that was empty is the one the hub
\* injection may extend afterwards).
C23_EntriesRewrittenInPlace ==
    pc = "done" =>
        \A i \in 1..Len(NodesBefore) :
            LET in == NodesBefore[i]
                out == result[1].nodes[i]
            IN  /\ Len(out.connections) = Len(in.connections)
                /\ \A j \in 1..Len(in.connections) :
                      out.connections[j] = Rewritten(in.connections[j])
                /\ Len(in.backConnections) > 0 =>
                      Len(out.backConnections) = Len(in.backConnections)
                /\ \A j \in 1..Len(in.backConnections) :
                      out.backConnections[j] = Rewritten(in.backConnections[j])

\* one call met all three cases: the entry "n2" names a node and a port
\* mapped to another node and was kept, a port name was replaced, and a
\* name nothing declares was left
C23_Witness ==
    /\ pc = "done" /\ run = 1
    /\ "n2" \in NodeIdsOf(NodesBefore)
    /\ "n2" \in DOMAIN PortsBefore /\ PortsBefore["n2"] # "n2"
    /\ \E i \in 1..Len(NodesBefore) :
          /\ NodesBefore[i].connections = <<"n2", "game_start">>
          /\ result[1].nodes[i].connections[1] = "n2"
          /\ result[1].nodes[i].connections[2] \in NodeIdsOf(NodesBefore)
    /\ \E i \in 1..Len(NodesBefore) :
          /\ NodesBefore[i].backConnections = <<"p1", "x">>
          /\ "p1" \in DOMAIN PortsBefore
          /\ result[1].nodes[i].backConnections[1] = PortsBefore["p1"]
          /\ result[1].nodes[i].backConnections[2] = "x"


\* ------------------------------------------------------- the hub injection
\* the positions of the hubs in the merged list
Hubs == {i \in 1..Len(NodesBefore) : isHub(NodesBefore[i])}

\* the nodes the injection looks at: neither ending nor hub, no back
\* connection after the rewrite (the rewrite keeps the length of the list)
Bare == {i \in 1..Len(NodesBefore) :
            /\ NodesBefore[i].type # "ending" /\ ~isHub(NodesBefore[i])
            /\ NodesBefore[i].backConnections = << >>}

SameLocationHubs(i) ==
    {h \in Hubs : NodesBefore[h].locationId = NodesBefore[i].locationId}

NearestHub(i) ==
    IF SameLocationHubs(i) # {} THEN SetMin(SameLocationHubs(i)) ELSE SetMin(Hubs)

\* C24 as stated: every non-ending, non-hub node without back connections
\* has exactly one afterwards, the first hub of its location or else the
\* first hub; nodes that had back connections get none added.
C24_EveryBareNodeGetsHub ==
    pc = "done" =>
        /\ \A i \in Bare :
              /\ Len(result[1].nodes[i].backConnections) = 1
              /\ Hubs # {}
              /\ result[1].nodes[i].backConnections[1] = NodesBefore[NearestHub(i)].id
        /\ \A i \in (1..Len(NodesBefore)) \ Bare :
              Len(result[1].nodes[i].backConnections) = Len(NodesBefore[i].backConnections)

\* C24 (amended): when the merged list holds a hub, every such node has
\* exactly one back connection afterwards, the first hub of its location or
\* else the first hub; when it holds none the node stays without; endings,
\* hubs and nodes that had back connections get none added.
C24_BareNodeGetsNearestHub ==
    pc = "done" =>
        /\ \A i \in Bare :
              IF Hubs # {}
              THEN result[1].nodes[i].backConnections = <<NodesBefore[NearestHub(i)].id>>
              ELSE result[1].nodes[i].backConnections = << >>
        /\ \A i \in (1..Len(NodesBefore)) \ Bare :
              Len(result[1].nodes[i].backConnections) = Len(NodesBefore[i].backConnections)

\* a node without back connections got the hub of its location although
\* another hub comes first in the merged list, and an ending and a hub
\* without back connections were left alone
C24_Witness ==
    /\ pc = "done" /\ run = 1
    /\ \E i \in Bare :
          /\ SameLocationHubs(i) # {}
          /\ NearestHub(i) # SetMin(Hubs)
          /\ result[1].nodes[i].backConnections = <<NodesBefore[NearestHub(i)].id>>
    /\ \E h \in Hubs : result[1].nodes[h].backConnections = << >>


\* ---------------------------------------------------------- the start node
\* C25 as stated: the start node is the node mapped to the game start port
\* when a chapter declares it, else the first node of the merged list, and
\* it is always a node of the returned graph.
C25_StartNodeInGraph ==
    pc = "done" =>
        /\ result[1].startNodeId \in NodeIdsOf(result[1].nodes)
        /\ "game_start" \in DeclaredPorts =>
              /\ "game_start" \in DOMAIN PortsBefore
              /\ result[1].startNodeId = PortsBefore["game_start"]
        /\ "game_start" \notin DeclaredPorts =>
              result[1].startNodeId = NodesBefore[1].id

\* C25 (amended): the start node is the node mapped to the game start port
\* when that port is mapped (declared by a chapter whose graph has a node),
\* else the first node of the merged list; it is a node of the returned
\* graph whenever the graph has a node, and the empty string when it has
\* none.
C25_StartNodeMappedOrFirst ==
    pc = "done" =>
        /\ Declaring("game_start") # {} =>
              result[1].startNodeId =
                  before.chapterGraphs[SetMin(Declaring("game_start"))].nodes[1].id
        /\ (Declaring("game_start") = {} /\ Len(NodesBefore) > 0) =>
              result[1].startNodeId = NodesBefore[1].id
        /\ Len(NodesBefore) > 0 =>
              result[1].startNodeId \in NodeIdsOf(result[1].nodes)
        /\ Len(NodesBefore) = 0 => result[1].startNodeId = ""

\* the game start port is mapped to the first node of the second chapter
\* graph, which is not the first node of the merged list, and the graph
\* starts there
C25_Witness ==
    /\ pc = "done" /\ run = 1
    /\ Declaring("game_start") = {2}
    /\ Len(before.chapterGraphs[1].nodes) > 0
    /\ result[1].startNodeId = before.chapterGraphs[2].nodes[1].id
    /\ result[1].startNodeId # result[1].nodes[1].id


\* ------------------------------------------------------------- repeatability
\* C26: a second call with the same arguments (the chapter graphs the first
\* call has rewritten in place) returns a graph equal to the first and
\* changes no connection, back connection or start node.
C26_SecondCallChangesNothing ==
    (pc = "done" /\ run = 2) =>
        /\ result = prev.result
        /\ local = before

\* two calls on chapter graphs in which the first call replaced a port name
\* and injected a hub
C26_Witness ==
    /\ pc = "done" /\ run = 2
    /\ result = prev.result
    /\ \E i \in 1..Len(result[1].nodes) :
          /\ result[1].nodes[i].type = "narrative"
          /\ Len(result[1].nodes[i].backConnections) = 1
          /\ result[1].nodes[i].backConnections[1] \in
                 {result[1].nodes[h].id : h \in Hubs}
          /\ result[1].nodes[i].connections[1] \in NodeIdsOf(result[1].nodes)
          /\ result[1].nodes[i].locationId = "l1"


\* ------------------------------------------------------------ validateAndFix
\* Game data as the validator sees it: startNodeId and the nodes in the key
\* order of gameData.nodes.  A node is [id, type, locationId, chapterNumber,
\* interactions, onEnter], an interaction [id, type, targetNodeId ("" when
\* it has no target), conditions, effects], a condition or effect
\* [type, key].  Report entries are [kind, node, ref, to].  The checks of
\* references to locations, characters, items, objects and variables only
\* add warnings and are left out.
Entry(kind, node, ref, to) == [kind |-> kind, node |-> node, ref |-> ref, to |-> to]

NodeKeys(nodes) == {nodes[i].id : i \in 1..Len(nodes)}

\* the ids of the ending nodes in key order
endingNodeIds(nodes) ==
    LET e == SelectSeq(nodes, LAMBDA n : n.type = "ending")
    IN  [i \in 1..Len(e) |-> e[i].id]

\* mutant: a dangling target is only warned about
danglingTargetKept(nodeId, it, nodeIds, endings) ==
    [it |-> it, fixes |-> << >>,
     warnings |-> IF it.targetNodeId # "" /\ it.targetNodeId \notin nodeIds
                  THEN <<Entry("dangling", nodeId, it.targetNodeId, "")>>
                  ELSE << >>]

\* the check of one interaction's targetNodeId
danglingTarget(nodeId, it, nodeIds, endings) ==
    IF it.targetNodeId # "" /\ it.targetNodeId \notin nodeIds
    THEN IF Len(endings) > 0
         THEN [it |-> [it EXCEPT !.targetNodeId = endings[1]],
               fixes |-> <<Entry("dangling", nodeId, it.targetNodeId, endings[1])>>,
               warnings |-> << >>]
         ELSE [it |-> it, fixes |-> << >>,
               warnings |-> <<Entry("dangling", nodeId, it.targetNodeId, "")>>]
    ELSE [it |-> it, fixes |-> << >>, warnings |-> << >>]

\* the interactions of one node in order; acc carries the interactions
\* checked so far, the running totalInteractions and the report lists
RECURSIVE checkInteractions(_, _, _, _, _, _)
checkInteractions(nodeId, todo, nodeIds, endings, seen, acc) ==
    IF todo = << >> THEN acc
    ELSE LET total == acc.total + 1
             dup == Head(todo).id \in seen
             newId == Head(todo).id \o "_" \o ToString(total)
             it1 == IF dup THEN [Head(todo) EXCEPT !.id = newId] ELSE Head(todo)
             d == danglingTarget(nodeId, it1, nodeIds, endings)
         IN  checkInteractions(nodeId, Tail(todo), nodeIds, endings,
                 seen \cup {it1.id},
                 [done |-> Append(acc.done, d.it),
                  total |-> total,
                  fixes |-> acc.fixes
                            \o (IF dup THEN <<Entry("duplicate", nodeId, Head(todo).id, newId)>>
                                ELSE << >>)
                            \o d.fixes,
                  warnings |-> acc.warnings \o d.warnings])

\* the loop over all nodes (validation.ts 90-206)
RECURSIVE checkNodes(_, _, _, _)
checkNodes(todo, nodeIds, endings, acc) ==
    IF todo = << >> THEN acc
    ELSE LET node == Head(todo)
             r == checkInteractions(node.id, node.interactions, nodeIds, endings, {},
                      [done |-> << >>, total |-> acc.total,
                       fixes |-> acc.fixes, warnings |-> acc.warnings])
         IN  checkNodes(Tail(todo), nodeIds, endings,
                 [nodes |-> Append(acc.nodes, [node EXCEPT !.interactions = r.done]),
                  total |-> r.total,
                  fixes |-> r.fixes,
                  warnings |-> r.warnings
                      \o (IF node.type # "ending" /\ Len(node.interactions) = 0
                          THEN <<Entry("nointeractions", node.id, "", "")>>
                          ELSE << >>)])

\* the nodes some interaction target or onEnter go_to_node effect leads to
hasIncomingOf(nodes) ==
    {n \in NodeKeys(nodes) :
        \E i \in 1..Len(nodes) :
            \/ \E j \in 1..Len(nodes[i].interactions) :
                   nodes[i].interactions[j].targetNodeId = n
            \/ \E j \in 1..Len(nodes[i].onEnter) :
                   /\ nodes[i].onEnter[j].type = "go_to_node"
                   /\ nodes[i].onEnter[j].key = n}

NodeAt(nodes, id) == nodes[CHOOSE i \in 1..Len(nodes) : nodes[i].id = id]

TargetsOf(node) ==
    {node.interactions[j].targetNodeId : j \in 1..Len(node.interactions)} \ {""}

goCount(node) ==
    Cardinality({j \in 1..Len(node.interactions) : node.interactions[j].type = "go"})

\* mutant: no cap on the go interactions of a predecessor
eligibleUncapped(candidate, orphanId) ==
    candidate.type # "ending" /\ candidate.id # orphanId

\* a candidate the loop scores: non-ending, not the orphan, fewer than 6 go
eligible(candidate, orphanId) ==
    candidate.type # "ending" /\ candidate.id # orphanId /\ goCount(candidate) < 6

\* mutant: the location counts more than the chapter
scoreLocationFirst(candidate, orphan, startNodeId, hasIncoming) ==
      (IF candidate.chapterNumber = orphan.chapterNumber THEN 5 ELSE 0)
    + (IF candidate.locationId = orphan.locationId THEN 10 ELSE 0)
    + 3 * Cardinality(TargetsOf(orphan) \cap TargetsOf(candidate))
    + (IF candidate.id = startNodeId \/ candidate.id \in hasIncoming THEN 2 ELSE 0)

score(candidate, orphan, startNodeId, hasIncoming) ==
      (IF candidate.chapterNumber = orphan.chapterNumber THEN 10 ELSE 0)
    + (IF candidate.locationId = orphan.locationId THEN 5 ELSE 0)
    + 3 * Cardinality(TargetsOf(orphan) \cap TargetsOf(candidate))
    + (IF candidate.id = startNodeId \/ candidate.id \in hasIncoming THEN 2 ELSE 0)

\* the position of the best predecessor, 0 when there is none: the first
\* candidate in key order no other candidate beats (score > bestScore)
bestPredecessor(nodes, orphanId, startNodeId, hasIncoming) ==
    LET orphan == NodeAt(nodes, orphanId)
        cand == {i \in 1..Len(nodes) : eligible(nodes[i], orphanId)}
        sc(i) == score(nodes[i], orphan, startNodeId, hasIncoming)
    IN  IF cand = {} THEN 0
        ELSE SetMin({i \in cand : \A k \in cand : sc(k) <= sc(i)})

\* the loop over the orphans; acc carries the nodes, hasIncoming, the fixes
\* and, for each orphan, the nodes and hasIncoming its turn started with
RECURSIVE reconnectEach(_, _, _)
reconnectEach(orphans, startNodeId, acc) ==
    IF orphans = << >> THEN acc
    ELSE LET orphanId == Head(orphans)
             best == bestPredecessor(acc.nodes, orphanId, startNodeId, acc.hasIncoming)
             turn == [orphan |-> orphanId, from |-> best, nodes |-> acc.nodes,
                      hasIncoming |-> acc.hasIncoming]
         IN  IF best = 0
             THEN reconnectEach(Tail(orphans), startNodeId,
                     [acc EXCEPT !.turns = Append(@, turn)])
             ELSE reconnectEach(Tail(orphans), startNodeId,
                     [nodes |-> [acc.nodes EXCEPT ![best].interactions =
                                    Append(@, [id |-> "fix_orphan_go_" \o orphanId,
                                               type |-> "go",
                                               targetNodeId |-> orphanId,
                                               conditions |-> << >>,
                                               effects |-> <<[type |-> "set_location",
                                                              key |-> NodeAt(acc.nodes, orphanId).locationId]>>])],
                      hasIncoming |-> acc.hasIncoming \cup {orphanId},
                      fixes |-> Append(acc.fixes,
                                    Entry("orphan", acc.nodes[best].id, orphanId, "")),
                      turns |-> Append(acc.turns, turn)])

\* the orphans in key order: not the start node, nothing leads to them
orphansOf(nodes, startNodeId) ==
    LET o == SelectSeq(nodes, LAMBDA n : n.id # startNodeId /\ n.id \notin hasIncomingOf(nodes))
    IN  [i \in 1..Len(o) |-> o[i].id]

\* mutant: the orphans are reconnected without the warning that counts them
reconnectOrphanNodesSilent(nodes, startNodeId) ==
    LET r == reconnectEach(orphansOf(nodes, startNodeId), startNodeId,
                 [nodes |-> nodes, hasIncoming |-> hasIncomingOf(nodes),
                  fixes |-> << >>, turns |-> << >>])
    IN  [nodes |-> r.nodes, fixes |-> r.fixes, turns |-> r.turns, warnings |-> << >>]

reconnectOrphanNodes(nodes, startNodeId) ==
    LET orphans == orphansOf(nodes, startNodeId)
        r == reconnectEach(orphans, startNodeId,
                 [nodes |-> nodes, hasIncoming |-> hasIncomingOf(nodes),
                  fixes |-> << >>, turns |-> << >>])
    IN  [nodes |-> r.nodes, fixes |-> r.fixes, turns |-> r.turns,
         warnings |-> IF orphans = << >> THEN << >>
                      ELSE <<Entry("orphans", "", ToString(Len(orphans)), "")>>]

\* the kinds the engine supports
INTERACTION_TYPES ==
    <<"examine", "take", "use", "use_on", "combine", "talk", "ask", "give", "go", "story">>

CONDITION_TYPES ==
    <<"has_item", "lacks_item", "flag_true", "flag_false",
      "object_state", "object_state_not",
      "visited_node", "not_visited_node", "visited_location",
      "variable_eq", "variable_gte", "variable_lte", "variable_gt", "variable_lt",
      "relation_gte", "relation_lte", "in_location">>

EFFECT_TYPES ==
    <<"add_item", "remove_item", "set_flag", "clear_flag",
      "set_object_state", "set_variable", "change_variable",
      "change_relation", "go_to_node", "set_location">>

TypesOf(list) == [k \in 1..Len(list) |-> list[k].type]

\* how often each kind occurs in the list (kinds that do not occur have no
\* count)
tally(types) ==
    [t \in Range(types) |-> Cardinality({k \in 1..Len(types) : types[k] = t})]

interactionTypeCounts(nodes) ==
    tally(Concat([i \in 1..Len(nodes) |-> TypesOf(nodes[i].interactions)]))

conditionTypeCounts(nodes) ==
    tally(Concat([i \in 1..Len(nodes) |->
              Concat([j \in 1..Len(nodes[i].interactions) |->
                         TypesOf(nodes[i].interactions[j].conditions)])]))

\* the effects of the interactions and the onEnter effects of the nodes
effectTypeCounts(nodes) ==
    tally(Concat([i \in 1..Len(nodes) |->
              Concat([j \in 1..Len(nodes[i].interactions) |->
                         TypesOf(nodes[i].interactions[j].effects)])
              \o TypesOf(nodes[i].onEnter)]))

\* mutant: no kind is ever reported missing
missingNone(kinds, counts) == << >>

\* the supported kinds without a count
missingTypes(kinds, counts) == SelectSeq(kinds, LAMBDA t : t \notin DOMAIN counts)

\* the quality checks at the end of the validation (the average is total
\* interactions per non-ending node, 0 without non-ending nodes)
qualityWarnings(total, nonEndingNodes, stats) ==
       (IF nonEndingNodes = 0 \/ total < 4 * nonEndingNodes
        THEN <<Entry("average", "", ToString(total), ToString(nonEndingNodes))>> ELSE << >>)
    \o (IF total < 180 THEN <<Entry("total", "", ToString(total), "")>> ELSE << >>)
    \o (IF Len(stats.missingInteractionTypes) > 0
        THEN <<Entry("missingInteractionTypes", "", "", "")>> ELSE << >>)
    \o (IF Len(stats.missingConditionTypes) > 0
        THEN <<Entry("missingConditionTypes", "", "", "")>> ELSE << >>)
    \o (IF Len(stats.missingEffectTypes) > 0
        THEN <<Entry("missingEffectTypes", "", "", "")>> ELSE << >>)

\* validateAndFix(gameData): the game data it leaves and the report; checked
\* (the nodes after the loop over the interactions) and turns (what each
\* orphan's predecessor was chosen on) are not part of what it returns
validateAndFix(gameData) ==
    LET nodeIds == NodeKeys(gameData.nodes)
        endings == endingNodeIds(gameData.nodes)
        c == checkNodes(gameData.nodes, nodeIds, endings,
                 [nodes |-> << >>, total |-> 0, fixes |-> << >>,
                  warnings |-> IF Len(endings) = 0
                               THEN <<Entry("noending", "", "", "")>> ELSE << >>])
        o == reconnectOrphanNodes(c.nodes, gameData.startNodeId)
        nonEndingNodes == Len(gameData.nodes) - Len(endings)
        stats == [totalNodes |-> Cardinality(nodeIds),
                  totalInteractions |-> c.total,
                  avgInteractionsPerNode |-> <<c.total, nonEndingNodes>>,
                  endingNodes |-> Len(endings),
                  choiceNodes |-> Len(SelectSeq(gameData.nodes,
                                                LAMBDA n : n.type = "choice")),
                  interactionTypeCounts |-> interactionTypeCounts(gameData.nodes),
                  conditionTypeCounts |-> conditionTypeCounts(gameData.nodes),
                  effectTypeCounts |-> effectTypeCounts(gameData.nodes),
                  missingInteractionTypes |->
                      missingTypes(INTERACTION_TYPES, interactionTypeCounts(gameData.nodes)),
                  missingConditionTypes |->
                      missingTypes(CONDITION_TYPES, conditionTypeCounts(gameData.nodes)),
                  missingEffectTypes |->
                      missingTypes(EFFECT_TYPES, effectTypeCounts(gameData.nodes))]
    IN  [gameData |-> [gameData EXCEPT !.nodes = o.nodes],
         report |-> [errors |-> IF gameData.startNodeId \notin nodeIds
                                THEN <<Entry("start", "", gameData.startNodeId, "")>>
                                ELSE << >>,
                     warnings |-> c.warnings \o o.warnings
                                  \o qualityWarnings(c.total, nonEndingNodes, stats),
                     fixes |-> c.fixes \o o.fixes,
                     stats |-> stats],
         checked |-> c.nodes,
         turns |-> o.turns]


\* ------------------------------------------------------------- ValidateSpec
\* validateAndFix called on bounded game data at the end of a run, then once
\* more on its own output as the CLI does.  local holds the resolved story
\* graph of the run and the game data, before what local was before the
\* last call, result what the last call returned, prev.result what the call
\* before returned, run the number of calls.
Interaction(id, type, targetNodeId) ==
    [id |-> id, type |-> type, targetNodeId |-> targetNodeId,
     conditions |-> << >>, effects |-> << >>]

Guarded(interaction, conditions, effects) ==
    [interaction EXCEPT !.conditions = conditions, !.effects = effects]

\* what the content of a story node can look like apart from its id: targets
\* are node ids or a name no node has ("zz")
ContentShapes ==
    { [type |-> "narrative", locationId |-> "l1", chapterNumber |-> 1,
       interactions |-> <<Interaction("a", "story", "n2")>>,
       onEnter |-> << >>],
      [type |-> "narrative", locationId |-> "l2", chapterNumber |-> 1,
       interactions |-> <<Interaction("a", "go", "zz"), Interaction("a", "examine", "")>>,
       onEnter |-> << >>],
      [type |-> "choice", locationId |-> "l1", chapterNumber |-> 2,
       interactions |-> <<Interaction("a_3", "story", "n3"), Interaction("a", "go", "n3"),
                          Interaction("a", "go", "n1")>>,
       onEnter |-> << >>],
      [type |-> "checkpoint", locationId |-> "l2", chapterNumber |-> 2,
       interactions |-> [k \in 1..6 |-> Interaction("g" \o ToString(k), "go", "n1")],
       onEnter |-> <<[type |-> "go_to_node", key |-> "n3"]>>],
      [type |-> "narrative", locationId |-> "l2", chapterNumber |-> 2,
       interactions |-> << >>,
       onEnter |-> <<[type |-> "set_flag", key |-> "n1"]>>],
      [type |-> "narrative", locationId |-> "l1", chapterNumber |-> 2,
       interactions |-> <<Guarded(Interaction("b", "story", "n1"),
                                  <<[type |-> "has_item", key |-> "i1"],
                                    [type |-> "flag_true", key |-> "f1"]>>,
                                  <<[type |-> "remove_item", key |-> "i1"]>>),
                          Interaction("c", "talk", "n2")>>,
       onEnter |-> << >>],
      [type |-> "ending", locationId |-> "l1", chapterNumber |-> 2,
       interactions |-> << >>,
       onEnter |-> << >>] }

StoryNode(i, shape) ==
    [id |-> NodeId(i), type |-> shape.type, locationId |-> shape.locationId,
     chapterNumber |-> shape.chapterNumber, interactions |-> shape.interactions,
     onEnter |-> shape.onEnter]

\* the start node ids a graph can carry ("zz": no node has it)
StartIds == {"n1", "n2", "zz"}

\* the connections the generated scene graph declares for node i of n:
\* each node leads to the next ("chain"), the first node names something
\* nothing declares ("loose"), or it leads on through a declared port
EdgeKinds == {"chain", "loose", "port"}

DeclaredEdges(kind, i, n) ==
    IF i = 1 /\ kind = "loose" THEN <<"x">>
    ELSE IF i = 1 /\ kind = "port" THEN <<"p1">> \o (IF n >= 3 THEN <<NodeId(3)>> ELSE << >>)
    ELSE IF i < n THEN <<NodeId(i + 1)>>
    ELSE << >>

\* the story graph of the run: the scene nodes of one chapter as
\* resolveConnections returns them
StoryGraphOf(shapes, kind) ==
    resolveConnections(
        [acts |-> <<[id |-> "act_1", summary |-> "s1"]>>],
        <<[chapters |-> <<[id |-> "c1", actId |-> "act_1", entryPorts |-> <<"p1">>]>>]>>,
        <<[chapterId |-> "c1",
           nodes |-> [i \in 1..Len(shapes) |->
                        [id |-> NodeId(i), type |-> shapes[i].type,
                         locationId |-> shapes[i].locationId,
                         connections |-> DeclaredEdges(kind, i, Len(shapes)),
                         backConnections |-> << >>]]]>>)

ValidateInit ==
    /\ manifest = saveManifest(<< >>, 0)
    /\ manifestFile = << >>
    /\ files = << >>
    /\ now = 1
    /\ deletes = 0
    /\ lastOp = Op("new", "none", NoKey, "none")
    /\ \E n \in 0..MaxGameNodes : \E shapes \in [1..n -> ContentShapes] :
       \E start \in StartIds : \E kind \in EdgeKinds :
           local = [graph |-> StoryGraphOf(shapes, kind),
                    gameData |-> [startNodeId |-> start,
                                  nodes |-> [i \in 1..n |-> StoryNode(i, shapes[i])]]]
    /\ before = local
    /\ pc = "idle" /\ stage = "step6" /\ run = 0
    /\ targetNodes = hierarchicalThreshold + 1
    /\ dryRun = FALSE /\ conc = 1
    /\ tasks = << >> /\ firstErr = 0
    /\ result = << >>
    /\ failure = [kind |-> "none", step |-> "none", key |-> NoKey]
    /\ hits = {} /\ misses = {} /\ validAtReach = {} /\ danglingAtReach = {}
    /\ invoked = {} /\ saved = {} /\ lastSaved = "none"
    /\ stageSnap = [m |-> << >>, f |-> << >>]
    /\ startSnap = [m |-> << >>, f |-> << >>]
    /\ prev = [ran |-> FALSE, done |-> FALSE, dry |-> FALSE, result |-> << >>,
               intact |-> TRUE]
    /\ touched = FALSE
    /\ lostOk = {}
    /\ order = << >> /\ progress = {}

\* const validationResult = validateAndFix(gameData): the game data is
\* repaired in place, the story graph is not handed over
CallValidate ==
    /\ run < MaxValidates
    /\ LET r == validateAndFix(local.gameData)
       IN  /\ result' = <<[report |-> r.report, checked |-> r.checked,
                             turns |-> r.turns]>>
           /\ local' = [local EXCEPT !.gameData = r.gameData]
    /\ before' = local
    /\ prev' = [prev EXCEPT !.ran = pc = "done", !.result = result]
    /\ run' = run + 1
    /\ pc' = "done"
    /\ UNCHANGED <<manifest, manifestFile, files, now, deletes, lastOp>>
    /\ UNCHANGED <<stage, targetNodes, dryRun, conc, tasks, firstErr, failure,
                   hits, misses, validAtReach, danglingAtReach, invoked, saved,
                   lastSaved, stageSnap, startSnap, touched, lostOk, order, progress>>

ValidateNext == CallValidate

ValidateSpec == ValidateInit /\ [][ValidateNext]_vars


\* ------------------------------------------------- what the report mentions
\* the report the validation of the run returned
Report == result[1].report

ReportEntries == Range(Report.errors) \cup Range(Report.warnings) \cup Range(Report.fixes)

\* the connection entries of the story graph that are not the id of a node
UnmappedEntries ==
    {e \in UNION {Range(local.graph.nodes[i].connections)
                  \cup Range(local.graph.nodes[i].backConnections) :
                      i \in 1..Len(local.graph.nodes)} :
        e \notin NodeIdsOf(local.graph.nodes)}

\* C21: every connection entry that resolveConnections could not map to a
\* node id is named in the report of the validation of the same run (the
\* resolver itself returns the graph and nothing else).
C21_UnmappedEntriesReported ==
    (pc = "done" /\ run = 1) =>
        \A e \in UnmappedEntries : \E r \in ReportEntries : r.ref = e


\* ----------------------------------------------------------- dangling targets
\* the game data the last call was given and the game data it left
NodesIn == before.gameData.nodes

NodesOut == local.gameData.nodes

\* the positions of the ending nodes in key order
Endings == {i \in 1..Len(NodesIn) : NodesIn[i].type = "ending"}

\* the interactions of node i whose target names no node
Dangling(i) ==
    {j \in 1..Len(NodesIn[i].interactions) :
        /\ NodesIn[i].interactions[j].targetNodeId # ""
        /\ NodesIn[i].interactions[j].targetNodeId \notin NodeIdsOf(NodesIn)}

\* how many entries of the list are of the kind and name the node
Count(list, kind, node) ==
    Cardinality({k \in 1..Len(list) : list[k].kind = kind /\ list[k].node = node})

\* C27: an interaction whose target names no node is, when the game has an
\* ending node, retargeted to the first ending node with one fix recorded,
\* and otherwise left unchanged with one warning recorded; every other
\* target is left alone.  With an ending node no interaction has a dangling
\* target after the validation.
C27_DanglingTargetsRepaired ==
    pc = "done" =>
        /\ \A i \in 1..Len(NodesIn) :
             /\ \A j \in 1..Len(NodesIn[i].interactions) :
                    NodesOut[i].interactions[j].targetNodeId =
                        IF j \in Dangling(i) /\ Endings # {}
                        THEN NodesIn[SetMin(Endings)].id
                        ELSE NodesIn[i].interactions[j].targetNodeId
             /\ Count(Report.fixes, "dangling", NodesIn[i].id) =
                    IF Endings # {} THEN Cardinality(Dangling(i)) ELSE 0
             /\ Count(Report.warnings, "dangling", NodesIn[i].id) =
                    IF Endings # {} THEN 0 ELSE Cardinality(Dangling(i))
        /\ Endings # {} =>
             \A i \in 1..Len(NodesOut) : \A j \in 1..Len(NodesOut[i].interactions) :
                 NodesOut[i].interactions[j].targetNodeId \in NodeIdsOf(NodesOut) \cup {""}

\* the first validation of a game with two ending nodes retargeted a
\* dangling interaction to the first of them and recorded the fix
C27_Witness ==
    /\ pc = "done" /\ run = 1
    /\ Cardinality(Endings) = 2
    /\ \E i \in 1..Len(NodesIn) :
          /\ Dangling(i) = {1}
          /\ NodesOut[i].interactions[1].targetNodeId = NodesIn[SetMin(Endings)].id
          /\ Entry("dangling", NodesIn[i].id, "zz", NodesIn[SetMin(Endings)].id)
                 \in Range(Report.fixes)


\* ------------------------------------------------------------ declared edges
\* C28: for every id in a forward or back connection list of the story
\* graph, the node that declares it has, after the validation, an
\* interaction that leads to that id.
C28_EveryEdgeHasInteraction ==
    (pc = "done" /\ run = 1) =>
        \A i \in 1..Len(local.graph.nodes) :
            \A e \in (Range(local.graph.nodes[i].connections)
                      \cup Range(local.graph.nodes[i].backConnections))
                     \cap NodeIdsOf(local.graph.nodes) :
                \E j \in 1..Len(NodesOut[i].interactions) :
                    NodesOut[i].interactions[j].targetNodeId = e


\* ------------------------------------------------------------------ orphans
\* the nodes as the orphan pass found them, the turns of its loop and the
\* start node of the game
Checked == result[1].checked

Turns == result[1].turns

Start == before.gameData.startNodeId

\* an interaction target or an onEnter go_to_node effect leads to the node
Incoming(nodes, id) ==
    \E i \in 1..Len(nodes) :
        \/ \E j \in 1..Len(nodes[i].interactions) : nodes[i].interactions[j].targetNodeId = id
        \/ \E j \in 1..Len(nodes[i].onEnter) :
               nodes[i].onEnter[j] = [type |-> "go_to_node", key |-> id]

\* the orphans in key order
Orphans ==
    LET o == SelectSeq(Checked, LAMBDA n : n.id # Start /\ ~Incoming(Checked, n.id))
    IN  [k \in 1..Len(o) |-> o[k].id]

\* the candidates of a turn: non-ending nodes other than the orphan with
\* fewer than 6 go interactions
Eligible(turn) ==
    {i \in 1..Len(turn.nodes) :
        /\ turn.nodes[i].type # "ending"
        /\ turn.nodes[i].id # turn.orphan
        /\ Cardinality({j \in 1..Len(turn.nodes[i].interactions) :
                            turn.nodes[i].interactions[j].type = "go"}) < 6}

\* +10 same chapter, +5 same location, +3 per shared successor, +2 if the
\* candidate is the start node or already has an incoming edge
Points(turn, i) ==
    LET c == turn.nodes[i]
        o == NodeAt(turn.nodes, turn.orphan)
        succ(n) == {n.interactions[j].targetNodeId : j \in 1..Len(n.interactions)} \ {""}
    IN    (IF c.chapterNumber = o.chapterNumber THEN 10 ELSE 0)
        + (IF c.locationId = o.locationId THEN 5 ELSE 0)
        + 3 * Cardinality(succ(c) \cap succ(o))
        + (IF c.id = Start \/ c.id \in turn.hasIncoming THEN 2 ELSE 0)

\* the interactions of the game after the validation that lead to the node,
\* as <<node position, interaction position>>
LinksTo(id) ==
    {<<i, j>> \in (1..Len(NodesOut)) \X (1..8) :
        /\ j <= Len(NodesOut[i].interactions)
        /\ NodesOut[i].interactions[j].targetNodeId = id}

C30_EveryNodeHasIncoming ==
    pc = "done" =>
        \A i \in 1..Len(NodesOut) :
            (NodesOut[i].id # Start /\ NodesOut[i].type # "ending") =>
                Incoming(NodesOut, NodesOut[i].id)


\* ------------------------------------------------------------- reachability
\* the nodes an interaction target or onEnter go_to_node effect of the node
\* at position i leads to
Successors(nodes, i) ==
    ({nodes[i].interactions[j].targetNodeId : j \in 1..Len(nodes[i].interactions)}
     \cup {nodes[i].onEnter[j].key :
              j \in {k \in 1..Len(nodes[i].onEnter) : nodes[i].onEnter[k].type = "go_to_node"}})
    \cap NodeIdsOf(nodes)

\* the nodes reachable from the set in at most k steps
RECURSIVE ReachWithin(_, _, _)
ReachWithin(nodes, from, k) ==
    IF k = 0 THEN from
    ELSE ReachWithin(nodes,
             from \cup UNION {Successors(nodes, i) :
                                 i \in {h \in 1..Len(nodes) : nodes[h].id \in from}},
             k - 1)

Reachable(nodes, start) == ReachWithin(nodes, {start} \cap NodeIdsOf(nodes), Len(nodes))

\* C31: after the validation every node of the game can be reached from the
\* start node along interaction targets and onEnter go_to_node effects.
C31_AllNodesReachable ==
    pc = "done" => Reachable(NodesOut, Start) = NodeIdsOf(NodesOut)


\* -------------------------------------------------------------- convergence
\* C32: a second validation of the game the first one left records no fix
\* and changes nothing in the game.
C32_SecondValidationIsClean ==
    (pc = "done" /\ run = 2) =>
        /\ Report.fixes = << >>
        /\ local = before


\* ------------------------------------------------------------ interaction ids
\* the ids of the interactions of a node are pairwise distinct
DistinctIds(node) ==
    \A j, k \in 1..Len(node.interactions) :
        j # k => node.interactions[j].id # node.interactions[k].id

\* C36: after the validation the interactions of every node have pairwise
\* distinct ids.
C36_InteractionIdsDistinct ==
    pc = "done" => \A i \in 1..Len(NodesOut) : DistinctIds(NodesOut[i])


\* ------------------------------------------------------------ coverage gaps
\* the kinds that occur in the game handed to the validation
UsedInteractionKinds ==
    {NodesIn[i].interactions[j].type :
        <<i, j>> \in {<<a, b>> \in (1..Len(NodesIn)) \X (1..8) :
                         b <= Len(NodesIn[a].interactions)}}

UsedConditionKinds ==
    UNION {{NodesIn[i].interactions[j].conditions[k].type :
               k \in 1..Len(NodesIn[i].interactions[j].conditions)} :
        <<i, j>> \in {<<a, b>> \in (1..Len(NodesIn)) \X (1..8) :
                         b <= Len(NodesIn[a].interactions)}}

UsedEffectKinds ==
    UNION {{NodesIn[i].interactions[j].effects[k].type :
               k \in 1..Len(NodesIn[i].interactions[j].effects)} :
        <<i, j>> \in {<<a, b>> \in (1..Len(NodesIn)) \X (1..8) :
                         b <= Len(NodesIn[a].interactions)}}
    \cup UNION {{NodesIn[i].onEnter[k].type : k \in 1..Len(NodesIn[i].onEnter)} :
                   i \in 1..Len(NodesIn)}

HasWarning(kind) == \E w \in Range(Report.warnings) : w.kind = kind

\* C33: every supported interaction, condition and effect kind that does
\* not occur in the game is listed as missing and a warning is raised for
\* its category; kinds that occur are not listed.  The validation changes
\* no type, condition or effect of an interaction and no onEnter effect, and
\* the only interactions it adds are the links to orphans, one per orphan
\* fix: nothing is added, removed or changed to cover a missing kind.
C33_CoverageGapsOnlyReported ==
    pc = "done" =>
        /\ Range(Report.stats.missingInteractionTypes)
               = Range(INTERACTION_TYPES) \ UsedInteractionKinds
        /\ Range(Report.stats.missingConditionTypes)
               = Range(CONDITION_TYPES) \ UsedConditionKinds
        /\ Range(Report.stats.missingEffectTypes)
               = Range(EFFECT_TYPES) \ UsedEffectKinds
        /\ HasWarning("missingInteractionTypes")
               <=> (Range(INTERACTION_TYPES) \ UsedInteractionKinds # {})
        /\ HasWarning("missingConditionTypes")
               <=> (Range(CONDITION_TYPES) \ UsedConditionKinds # {})
        /\ HasWarning("missingEffectTypes")
               <=> (Range(EFFECT_TYPES) \ UsedEffectKinds # {})
        /\ Len(NodesOut) = Len(NodesIn)
        /\ \A i \in 1..Len(NodesIn) :
             /\ NodesOut[i].onEnter = NodesIn[i].onEnter
             /\ Len(NodesOut[i].interactions) >= Len(NodesIn[i].interactions)
             /\ \A j \in 1..Len(NodesIn[i].interactions) :
                  /\ NodesOut[i].interactions[j].type = NodesIn[i].interactions[j].type
                  /\ NodesOut[i].interactions[j].conditions
                         = NodesIn[i].interactions[j].conditions
                  /\ NodesOut[i].interactions[j].effects
                         = NodesIn[i].interactions[j].effects
             /\ \A j \in (Len(NodesIn[i].interactions) + 1)..Len(NodesOut[i].interactions) :
                  \E k \in 1..Len(Turns) :
                      /\ Turns[k].from = i
                      /\ NodesOut[i].interactions[j].targetNodeId = Turns[k].orphan
                      /\ LinksTo(Turns[k].orphan) = {<<i, j>>}

\* the first validation of a game without any go interaction listed "go" as
\* missing, found a condition kind, an interaction effect kind and an
\* onEnter effect kind in use, and added a go link for an orphan
C33_Witness ==
    /\ pc = "done" /\ run = 1
    /\ "go" \in Range(Report.stats.missingInteractionTypes)
    /\ "has_item" \notin Range(Report.stats.missingConditionTypes)
    /\ "remove_item" \notin Range(Report.stats.missingEffectTypes)
    /\ "set_flag" \notin Range(Report.stats.missingEffectTypes)
    /\ HasWarning("missingInteractionTypes")
    /\ \E k \in 1..Len(Turns) : Turns[k].from # 0


\* ------------------------------------------------------ defects are reported
\* C34: the validation returns for every game, whatever its defects, the
\* game (same nodes in the same order) and a report; a start node id that
\* names no node is an error of the report, every interaction whose target
\* names no node is a fix or a warning naming the node and the target, the
\* orphans are counted in one warning and every reconnected orphan is a fix,
\* and every category of kinds with an unused kind is a warning.
C34_DefectsReportedNotThrown ==
    pc = "done" =>
        /\ Len(result) = 1
        /\ [i \in 1..Len(NodesOut) |-> NodesOut[i].id]
               = [i \in 1..Len(NodesIn) |-> NodesIn[i].id]
        /\ Start \notin NodeIdsOf(NodesIn) =>
               Entry("start", "", Start, "") \in Range(Report.errors)
        /\ \A i \in 1..Len(NodesIn) : \A j \in Dangling(i) :
               \E e \in Range(Report.fixes) \cup Range(Report.warnings) :
                   /\ e.kind = "dangling"
                   /\ e.node = NodesIn[i].id
                   /\ e.ref = NodesIn[i].interactions[j].targetNodeId
        /\ Orphans # << >> =>
               Entry("orphans", "", ToString(Len(Orphans)), "") \in Range(Report.warnings)
        /\ \A k \in 1..Len(Turns) :
               Turns[k].from # 0 =>
                   \E e \in Range(Report.fixes) :
                       e.kind = "orphan" /\ e.ref = Turns[k].orphan
        /\ Range(INTERACTION_TYPES) \ UsedInteractionKinds # {}
               => HasWarning("missingInteractionTypes")
        /\ Range(CONDITION_TYPES) \ UsedConditionKinds # {}
               => HasWarning("missingConditionTypes")
        /\ Range(EFFECT_TYPES) \ UsedEffectKinds # {}
               => HasWarning("missingEffectTypes")

\* a game with all four defects at once was validated: its start node id
\* names no node, an interaction has a dangling target, a node is an orphan
\* and kinds are unused
C34_Witness ==
    /\ pc = "done" /\ run = 1
    /\ Start \notin NodeIdsOf(NodesIn)
    /\ \E i \in 1..Len(NodesIn) : Dangling(i) # {}
    /\ Orphans # << >>
    /\ Range(INTERACTION_TYPES) \ UsedInteractionKinds # {}
    /\ Report.errors # << >>


\* =============================================================== client.ts
\* callWithStructuredOutput: the rate limit on the module variable
\* lastCallTime and the retry loop around one remote request.  Times are
\* milliseconds of Date.now().
MaxCallers == 2

MaxClock == 19000

MIN_DELAY_BETWEEN_CALLS == 2000

MAX_RETRIES == 3

\* the clock is observed at multiples of half the minimum delay
Tick == MIN_DELAY_BETWEEN_CALLS \div 2

\* a piece of an error message: a text followed by a number in decimal
\* (n = -1: no number); mentions names the search patterns the text contains
Seg(text, mentions, n) == [text |-> text, mentions |-> mentions, n |-> n]

RECURSIVE Digits(_)
Digits(n) == IF n < 10 THEN <<n>> ELSE Digits(n \div 10) \o <<n % 10>>

\* the digits of a search pattern, none when it is not a number
PatternDigits(pattern) == IF pattern = "429" THEN <<4, 2, 9>> ELSE << >>

\* String.prototype.includes on a message
includes(message, pattern) ==
    \E i \in 1..Len(message) :
        \/ pattern \in message[i].mentions
        \/ /\ message[i].n >= 0
           /\ PatternDigits(pattern) # << >>
           /\ LET d == Digits(message[i].n)
                  q == PatternDigits(pattern)
              IN  \E k \in 0..(Len(d) - Len(q)) : SubSeq(d, k + 1, k + Len(q)) = q

NoError == [name |-> "none", status |-> 0, message |-> << >>]

\* usage.output_tokens of the responses
TokenCounts == {350, 4291}

\* what one request can come back with: a parseable or repairable answer,
\* an answer without a text block, an answer that cannot be parsed or
\* repaired, a rejection with HTTP status 429, a connection failure
Responses ==
    {[kind |-> "ok", output_tokens |-> 350],
     [kind |-> "notext", output_tokens |-> 350],
     [kind |-> "rate_limit", output_tokens |-> 0],
     [kind |-> "network", output_tokens |-> 0]}
    \cup {[kind |-> "unparseable", output_tokens |-> t] : t \in TokenCounts}

\* the error the try block ends with for a response that is not returned
errorOf(r) ==
    CASE r.kind = "notext" ->
             [name |-> "Error", status |-> 0,
              message |-> <<Seg("No text content in response", {}, -1)>>]
      [] r.kind = "unparseable" ->
             [name |-> "Error", status |-> 0,
              message |-> <<Seg("Failed to parse AI response as JSON. Input: ", {}, 120),
                            Seg(", Output: ", {}, r.output_tokens),
                            Seg(". Original error: SyntaxError. Consider using chunked generation for large books.",
                                {}, -1)>>]
      [] r.kind = "rate_limit" ->
             [name |-> "RateLimitError", status |-> 429,
              message |-> <<Seg("", {}, 429), Seg(" rate_limit_error", {"rate_limit"}, -1)>>]
      [] r.kind = "network" ->
             [name |-> "APIConnectionError", status |-> 0,
              message |-> <<Seg("Connection error.", {}, -1)>>]

isRateLimitError(err) ==
    \/ err.status = 429
    \/ includes(err.message, "rate_limit")
    \/ includes(err.message, "429")

RECURSIVE Pow2(_)
Pow2(k) == IF k = 0 THEN 1 ELSE 2 * Pow2(k - 1)

\* Math.pow(2, attempt) * 5000
backoffDelay(attempt) == Pow2(attempt) * 5000

Caller(cpc, attempt, wake, lastError) ==
    [pc |-> cpc, attempt |-> attempt, wake |-> wake, lastError |-> lastError]

\* lastCallTime = Date.now(); anthropic.messages.create(...) of the attempt
startAttempt(c, attempt) ==
    /\ local' = [local EXCEPT !.lastCallTime = now]
    /\ tasks' = [tasks EXCEPT ![c] = Caller("flight", attempt, 0, @.lastError)]

ClientFrame ==
    /\ UNCHANGED <<manifest, manifestFile, files, deletes, lastOp, before>>
    /\ UNCHANGED <<pc, stage, run, targetNodes, dryRun, conc, firstErr, result, failure,
                   hits, misses, validAtReach, danglingAtReach, invoked, saved,
                   lastSaved, stageSnap, startSnap, prev, touched, lostOk, order, progress>>

ClientInit ==
    /\ manifest = saveManifest(<< >>, 0)
    /\ manifestFile = << >>
    /\ files = << >>
    /\ now = MIN_DELAY_BETWEEN_CALLS
    /\ deletes = 0
    /\ lastOp = Op("new", "none", NoKey, "none")
    /\ local = [lastCallTime |-> 0]
    /\ before = local
    /\ pc = "wait" /\ stage = "step4" /\ run = 1
    /\ targetNodes = hierarchicalThreshold
    /\ dryRun = FALSE /\ conc = MaxCallers
    /\ tasks = [c \in 1..MaxCallers |-> Caller("idle", 0, 0, NoError)]
    /\ firstErr = 0
    /\ result = << >>
    /\ failure = [kind |-> "none", step |-> "none", key |-> NoKey]
    /\ hits = {} /\ misses = {} /\ validAtReach = {} /\ danglingAtReach = {}
    /\ invoked = {} /\ saved = {} /\ lastSaved = "none"
    /\ stageSnap = [m |-> << >>, f |-> << >>]
    /\ startSnap = [m |-> << >>, f |-> << >>]
    /\ prev = [ran |-> FALSE, done |-> FALSE, dry |-> FALSE, result |-> << >>,
               intact |-> TRUE]
    /\ touched = FALSE
    /\ lostOk = {}
    /\ order = << >> /\ progress = {}

\* a task calls callWithStructuredOutput: it runs up to its first await
EnterCall(c) ==
    /\ tasks[c].pc = "idle"
    /\ LET timeSinceLastCall == now - local.lastCallTime
       IN  IF timeSinceLastCall < MIN_DELAY_BETWEEN_CALLS
           THEN /\ tasks' = [tasks EXCEPT ![c] =
                       Caller("sleep", 0,
                              now + (MIN_DELAY_BETWEEN_CALLS - timeSinceLastCall), NoError)]
                /\ UNCHANGED local
           ELSE startAttempt(c, 0)
    /\ UNCHANGED now
    /\ ClientFrame

\* the rate limit sleep is over: the loop starts with attempt 0
WakeCall(c) ==
    /\ tasks[c].pc = "sleep"
    /\ now >= tasks[c].wake
    /\ startAttempt(c, 0)
    /\ UNCHANGED now
    /\ ClientFrame

\* the request of the attempt settles
Respond(c, r) ==
    /\ tasks[c].pc = "flight"
    /\ IF r.kind = "ok"
       THEN tasks' = [tasks EXCEPT ![c].pc = "returned"]
       ELSE LET err == errorOf(r)
                attempt == tasks[c].attempt
            IN  IF isRateLimitError(err) /\ attempt < MAX_RETRIES - 1
                THEN tasks' = [tasks EXCEPT ![c] =
                         Caller("backoff", attempt, now + backoffDelay(attempt), err)]
                ELSE tasks' = [tasks EXCEPT ![c] = Caller("thrown", attempt, 0, err)]
    /\ UNCHANGED <<now, local>>
    /\ ClientFrame

\* the backoff sleep is over: continue with the next attempt
RetryCall(c) ==
    /\ tasks[c].pc = "backoff"
    /\ now >= tasks[c].wake
    /\ startAttempt(c, tasks[c].attempt + 1)
    /\ UNCHANGED now
    /\ ClientFrame

\* time passes while no timer is due
AdvanceClock ==
    /\ now + Tick <= MaxClock
    /\ \A c \in 1..MaxCallers :
           tasks[c].pc \in {"sleep", "backoff"} => now < tasks[c].wake
    /\ now' = now + Tick
    /\ UNCHANGED <<local, tasks>>
    /\ ClientFrame

ClientNext ==
    \/ \E c \in 1..MaxCallers : EnterCall(c)
    \/ \E c \in 1..MaxCallers : WakeCall(c)
    \/ \E c \in 1..MaxCallers : \E r \in Responses : Respond(c, r)
    \/ \E c \in 1..MaxCallers : RetryCall(c)
    \/ AdvanceClock

ClientSpec == ClientInit /\ [][ClientNext]_vars


\* ------------------------------------------------------------- retry policy
\* the error of the attempt came from the answer's content or the connection
NotRateLimit(err) == err.name \in {"Error", "APIConnectionError"}

\* C35: a call makes at most 3 attempts; it waits for another attempt only
\* after an attempt that failed on the rate limit; an attempt that failed on
\* a malformed answer or on the connection ends the call with that error.
C35_RetryOnlyAfterRateLimit ==
    \A c \in 1..MaxCallers :
        /\ tasks[c].attempt + 1 <= MAX_RETRIES
        /\ tasks[c].pc = "backoff" => tasks[c].lastError.name = "RateLimitError"
        /\ (tasks[c].pc # "idle" /\ NotRateLimit(tasks[c].lastError)) =>
               tasks[c].pc = "thrown"

\* ------------------------------------------------------------ rate limiting
\* C37: whenever a request is started, the request started before it (the
\* one that set lastCallTime) was started at least MIN_DELAY_BETWEEN_CALLS
\* earlier.
C37_RequestsTwoSecondsApart ==
    [][\A c \in 1..MaxCallers :
           (tasks[c].pc # "flight" /\ tasks'[c].pc = "flight") =>
               \/ local.lastCallTime = 0
               \/ now - local.lastCallTime >= MIN_DELAY_BETWEEN_CALLS]_vars


\* ========================================================= runtime engine
\* BookAdventureEngine: the game state, the undo history and the calls
\* executeInteraction, undo and start on a small game.  A record of the
\* source (flags, variables, ...) is a function on the keys it holds; null
\* and the absent targetNodeId are "".
MaxEngineCalls == 4

\* a condition or an effect; value holds a string operand, num a numeric one
Cond(type, key, value, num) == [type |-> type, key |-> key, value |-> value, num |-> num]

Eff(type, key, value, num) == [type |-> type, key |-> key, value |-> value, delta |-> num]

\* record[key] ?? default
Lookup(record, key, default) == IF key \in DOMAIN record THEN record[key] ELSE default

\* record[key] = value
Assign(record, key, value) ==
    [k \in DOMAIN record \cup {key} |-> IF k = key THEN value ELSE record[k]]

\* if (!array.includes(x)) array.push(x)
PushNew(array, x) == IF x \in Range(array) THEN array ELSE Append(array, x)

evaluateCondition(condition, state) ==
    LET type == condition.type
        key == condition.key
    IN  CASE type = "has_item" -> key \in Range(state.inventory)
          [] type = "lacks_item" -> key \notin Range(state.inventory)
          [] type = "flag_true" -> Lookup(state.flags, key, FALSE) = TRUE
          [] type = "flag_false" -> Lookup(state.flags, key, FALSE) # TRUE
          [] type = "object_state" -> Lookup(state.objectStates, key, "") = condition.value
          [] type = "object_state_not" -> Lookup(state.objectStates, key, "") # condition.value
          [] type = "visited_node" -> key \in Range(state.visitedNodes)
          [] type = "not_visited_node" -> key \notin Range(state.visitedNodes)
          [] type = "visited_location" -> key \in Range(state.visitedLocations)
          [] type = "variable_eq" -> Lookup(state.variables, key, 0) = condition.num
          [] type = "variable_gte" -> Lookup(state.variables, key, 0) >= condition.num
          [] type = "variable_lte" -> Lookup(state.variables, key, 0) <= condition.num
          [] type = "variable_gt" -> Lookup(state.variables, key, 0) > condition.num
          [] type = "variable_lt" -> Lookup(state.variables, key, 0) < condition.num
          [] type = "relation_gte" -> Lookup(state.characterRelations, key, 0) >= condition.num
          [] type = "relation_lte" -> Lookup(state.characterRelations, key, 0) <= condition.num
          [] type = "in_location" -> state.currentLocationId = key
          [] OTHER -> FALSE

\* mutant: one condition that holds is enough
evaluateConditionsSome(conditions, state) ==
    \/ Len(conditions) = 0
    \/ \E k \in 1..Len(conditions) : evaluateCondition(conditions[k], state)

evaluateConditions(conditions, state) ==
    \/ Len(conditions) = 0
    \/ \A k \in 1..Len(conditions) : evaluateCondition(conditions[k], state)

\* Math.max(-100, Math.min(100, n))
clampRelation(n) == IF n > 100 THEN 100 ELSE IF n < -100 THEN -100 ELSE n

\* the state after the effect and the node the effect navigates to
applyEffect(effect, state) ==
    LET type == effect.type
        key == effect.key
        stay(s) == [state |-> s, target |-> ""]
    IN  CASE type = "add_item" ->
                 stay([state EXCEPT !.inventory = PushNew(@, key)])
          [] type = "remove_item" ->
                 stay([state EXCEPT !.inventory = SelectSeq(@, LAMBDA item : item # key)])
          [] type = "set_flag" -> stay([state EXCEPT !.flags = Assign(@, key, TRUE)])
          [] type = "clear_flag" -> stay([state EXCEPT !.flags = Assign(@, key, FALSE)])
          [] type = "set_object_state" ->
                 stay([state EXCEPT !.objectStates = Assign(@, key, effect.value)])
          [] type = "set_variable" ->
                 stay([state EXCEPT !.variables = Assign(@, key, effect.delta)])
          [] type = "change_variable" ->
                 stay([state EXCEPT !.variables =
                           Assign(@, key, Lookup(@, key, 0) + effect.delta)])
          [] type = "change_relation" ->
                 stay([state EXCEPT !.characterRelations =
                           Assign(@, key, clampRelation(Lookup(@, key, 0) + effect.delta))])
          [] type = "go_to_node" -> [state |-> state, target |-> key]
          [] type = "set_location" ->
                 stay([state EXCEPT !.currentLocationId = key,
                                    !.visitedLocations = PushNew(@, key)])
          [] OTHER -> stay(state)

RECURSIVE applyEffectsFrom(_, _, _)
applyEffectsFrom(effects, k, acc) ==
    IF k > Len(effects) THEN acc
    ELSE LET r == applyEffect(effects[k], acc.state)
         IN  applyEffectsFrom(effects, k + 1,
                 [state |-> r.state,
                  target |-> IF r.target # "" THEN r.target ELSE acc.target])

applyEffects(effects, state) == applyEffectsFrom(effects, 1, [state |-> state, target |-> ""])

\* mutant: the snapshot leaves the executed interactions out
cloneStateWithoutExecuted(state) ==
    [currentNodeId |-> state.currentNodeId,
     currentLocationId |-> state.currentLocationId,
     inventory |-> state.inventory,
     objectStates |-> state.objectStates,
     flags |-> state.flags,
     variables |-> state.variables,
     characterRelations |-> state.characterRelations,
     executedInteractions |-> << >>,
     visitedNodes |-> state.visitedNodes,
     visitedLocations |-> state.visitedLocations]

cloneState(state) ==
    [currentNodeId |-> state.currentNodeId,
     currentLocationId |-> state.currentLocationId,
     inventory |-> state.inventory,
     objectStates |-> state.objectStates,
     flags |-> state.flags,
     variables |-> state.variables,
     characterRelations |-> state.characterRelations,
     executedInteractions |-> state.executedInteractions,
     visitedNodes |-> state.visitedNodes,
     visitedLocations |-> state.visitedLocations]

createInitialState(gameData) ==
    [currentNodeId |-> gameData.initialState.startNodeId,
     currentLocationId |-> gameData.initialState.startLocationId,
     inventory |-> gameData.initialState.initialInventory,
     objectStates |-> << >>,
     flags |-> gameData.initialState.initialFlags,
     variables |-> gameData.initialState.initialVariables,
     characterRelations |->
         [c \in DOMAIN gameData.characters |-> gameData.characters[c].initialRelation],
     executedInteractions |-> << >>,
     visitedNodes |-> <<gameData.initialState.startNodeId>>,
     visitedLocations |-> <<gameData.initialState.startLocationId>>]

\* gameData.nodes[nodeId] ?? null: << >> or <<node>>
nodeOf(gameData, nodeId) ==
    SelectSeq(gameData.nodes, LAMBDA n : n.id = nodeId)

getCurrentNode(engine) == nodeOf(engine.gameData, engine.state.currentNodeId)

\* the interactions of the current node offered to the player
getAvailableInteractions(engine) ==
    LET node == getCurrentNode(engine)
        executed == engine.state.executedInteractions
        chosen(i) == i.type = "story" /\ i.targetNodeId = "" /\ i.id \in Range(executed)
        executedStoryConditionKeys ==
            IF node = << >> THEN {}
            ELSE {node[1].interactions[j].conditions :
                     j \in {k \in 1..Len(node[1].interactions) :
                               chosen(node[1].interactions[k])}}
    IN  IF node = << >> THEN << >>
        ELSE SelectSeq(node[1].interactions,
                 LAMBDA interaction :
                     /\ interaction.id \notin Range(executed)
                     /\ ~ /\ interaction.type = "story"
                          /\ interaction.targetNodeId = ""
                          /\ interaction.conditions \in executedStoryConditionKeys
                     /\ evaluateConditions(interaction.conditions, engine.state))

\* the state after goToNode(nodeId)
goToNode(gameData, state, nodeId) ==
    LET node == nodeOf(gameData, nodeId)
    IN  IF node = << >> THEN state
        ELSE LET moved == [state EXCEPT !.currentNodeId = nodeId,
                                        !.visitedNodes = PushNew(@, nodeId)]
                 located ==
                     IF node[1].locationId # "" /\ node[1].locationId # moved.currentLocationId
                     THEN [moved EXCEPT !.currentLocationId = node[1].locationId,
                                        !.visitedLocations = PushNew(@, node[1].locationId)]
                     ELSE moved
             IN  applyEffects(node[1].onEnter, located).state

\* the engine after executeInteraction(interactionId) and what it returned:
\* << >> for null, else <<resultText>>
executeInteraction(engine, interactionId) ==
    LET node == getCurrentNode(engine)
        found == IF node = << >> THEN {}
                 ELSE {j \in 1..Len(node[1].interactions) :
                          node[1].interactions[j].id = interactionId}
    IN  IF found = {} THEN [engine |-> engine, returned |-> << >>]
        ELSE LET interaction == node[1].interactions[SetMin(found)]
             IN  IF ~evaluateConditions(interaction.conditions, engine.state)
                 THEN [engine |-> engine, returned |-> << >>]
                 ELSE LET entry == [nodeId |-> engine.state.currentNodeId,
                                    interactionId |-> interactionId,
                                    stateSnapshot |-> cloneState(engine.state)]
                          applied == applyEffects(interaction.effects, engine.state)
                          targetNodeId == IF interaction.targetNodeId # ""
                                          THEN interaction.targetNodeId
                                          ELSE applied.target
                      IN  [engine |->
                               [engine EXCEPT
                                   !.history = Append(@, entry),
                                   !.state =
                                       IF targetNodeId # ""
                                       THEN goToNode(engine.gameData, applied.state,
                                                     targetNodeId)
                                       ELSE [applied.state EXCEPT
                                                !.executedInteractions =
                                                    Append(@, interactionId)]],
                           returned |-> <<interaction.resultText>>]

\* the engine after undo() and what it returned
undo(engine) ==
    IF Len(engine.history) = 0 THEN [engine |-> engine, returned |-> <<FALSE>>]
    ELSE [engine |->
              [engine EXCEPT
                  !.state = cloneState(engine.history[Len(engine.history)].stateSnapshot),
                  !.history = SubSeq(@, 1, Len(@) - 1)],
          returned |-> <<TRUE>>]

\* the engine after start()
startGame(engine) ==
    LET fresh == createInitialState(engine.gameData)
        firstNode == nodeOf(engine.gameData, fresh.currentNodeId)
    IN  [engine EXCEPT
            !.state = IF firstNode # << >>
                      THEN applyEffects(firstNode[1].onEnter, fresh).state
                      ELSE fresh,
            !.history = << >>]

\* ---------------------------------------------------------------- EngineSpec
\* one engine on a game of three nodes; local is the engine, before the
\* engine before the last call, lastOp the last call and what it returned,
\* run the number of calls.  order holds the states the engine was in before
\* each interaction that succeeded and was not undone since, and
\* prev.result the one of them the last successful undo took off.
Play(id, type, conditions, effects, targetNodeId) ==
    [id |-> id, type |-> type, resultText |-> id, conditions |-> conditions,
     effects |-> effects, targetNodeId |-> targetNodeId]

EngineNodes ==
    <<[id |-> "n1", type |-> "narrative", locationId |-> "l1", onEnter |-> << >>,
       interactions |->
           <<Play("look", "examine", << >>,
                  <<Eff("change_variable", "gold", "", 1)>>, ""),
             Play("take", "take", <<Cond("lacks_item", "key", "", 0)>>,
                  <<Eff("add_item", "key", "", 0), Eff("set_flag", "has_key", "", 0)>>, ""),
             Play("pay", "use",
                  <<Cond("has_item", "coin", "", 0), Cond("variable_gte", "gold", "", 1)>>,
                  <<Eff("remove_item", "coin", "", 0),
                    Eff("set_object_state", "door", "open", 0)>>, ""),
             Play("sideA", "story", <<Cond("relation_gte", "bob", "", 0)>>,
                  <<Eff("change_relation", "bob", "", 60)>>, ""),
             Play("sideB", "story", <<Cond("relation_gte", "bob", "", 0)>>,
                  <<Eff("change_relation", "bob", "", -60)>>, ""),
             Play("go2", "go", <<Cond("object_state", "door", "open", 0)>>,
                  <<Eff("set_location", "l2", "", 0)>>, "n2"),
             Play("leap", "story", <<Cond("not_visited_node", "n2", "", 0)>>,
                  <<Eff("go_to_node", "n2", "", 0)>>, "")>>],
      [id |-> "n2", type |-> "checkpoint", locationId |-> "l2",
       onEnter |-> <<Eff("set_flag", "arrived", "", 0), Eff("change_variable", "gold", "", 1)>>,
       interactions |->
           <<Play("back", "go", <<Cond("visited_node", "n1", "", 0)>>,
                  <<Eff("set_variable", "gold", "", 0)>>, "n1"),
             Play("lost", "go", <<Cond("in_location", "l2", "", 0)>>,
                  <<Eff("clear_flag", "arrived", "", 0)>>, "zz"),
             Play("end", "story", <<Cond("flag_true", "has_key", "", 0)>>, << >>, "n3")>>],
      [id |-> "n3", type |-> "ending", locationId |-> "l2", onEnter |-> << >>,
       interactions |-> << >>]>>

EngineGame(startNodeId) ==
    [nodes |-> EngineNodes,
     characters |-> [c \in {"bob"} |-> [initialRelation |-> 50]],
     initialState |-> [startNodeId |-> startNodeId,
                       startLocationId |-> "l1",
                       initialInventory |-> <<"coin">>,
                       initialFlags |-> [f \in {"has_key"} |-> FALSE],
                       initialVariables |-> [v \in {"gold"} |-> 0]]]

\* the ids a caller passes: every interaction of the game and an unknown one
EngineIds ==
    UNION {{EngineNodes[i].interactions[j].id : j \in 1..Len(EngineNodes[i].interactions)} :
              i \in 1..Len(EngineNodes)}
    \cup {"nope"}

Call(op, id, returned) == [op |-> op, id |-> id, returned |-> returned]

EngineFrame ==
    /\ UNCHANGED <<manifest, manifestFile, files, now, deletes>>
    /\ UNCHANGED <<pc, stage, targetNodes, dryRun, conc, tasks, firstErr, result, failure,
                   hits, misses, validAtReach, danglingAtReach, invoked, saved,
                   lastSaved, stageSnap, startSnap, touched, lostOk, progress>>

\* new BookAdventureEngine(gameData)
EngineInit ==
    /\ manifest = saveManifest(<< >>, 0)
    /\ manifestFile = << >>
    /\ files = << >>
    /\ now = 1
    /\ deletes = 0
    /\ lastOp = Call("new", "", << >>)
    /\ \E startNodeId \in {"n1", "zz"} :
           local = [gameData |-> EngineGame(startNodeId),
                    state |-> createInitialState(EngineGame(startNodeId)),
                    history |-> << >>]
    /\ before = local
    /\ pc = "idle" /\ stage = "step6" /\ run = 0
    /\ targetNodes = hierarchicalThreshold
    /\ dryRun = FALSE /\ conc = 1
    /\ tasks = << >> /\ firstErr = 0
    /\ result = << >>
    /\ failure = [kind |-> "none", step |-> "none", key |-> NoKey]
    /\ hits = {} /\ misses = {} /\ validAtReach = {} /\ danglingAtReach = {}
    /\ invoked = {} /\ saved = {} /\ lastSaved = "none"
    /\ stageSnap = [m |-> << >>, f |-> << >>]
    /\ startSnap = [m |-> << >>, f |-> << >>]
    /\ prev = [ran |-> FALSE, done |-> FALSE, dry |-> FALSE, result |-> << >>,
               intact |-> TRUE]
    /\ touched = FALSE
    /\ lostOk = {}
    /\ order = << >> /\ progress = {}

CallExecute(id) ==
    /\ run < MaxEngineCalls
    /\ LET r == executeInteraction(local, id)
       IN  /\ local' = r.engine
           /\ lastOp' = Call("execute", id, r.returned)
           /\ order' = IF r.returned # << >> THEN Append(order, local.state) ELSE order
    /\ before' = local
    /\ run' = run + 1
    /\ UNCHANGED prev
    /\ EngineFrame

CallUndo ==
    /\ run < MaxEngineCalls
    /\ LET r == undo(local)
           popped == r.returned = <<TRUE>> /\ order # << >>
       IN  /\ local' = r.engine
           /\ lastOp' = Call("undo", "", r.returned)
           /\ order' = IF popped THEN SubSeq(order, 1, Len(order) - 1) ELSE order
           /\ prev' = IF popped THEN [prev EXCEPT !.result = <<order[Len(order)]>>]
                      ELSE prev
    /\ before' = local
    /\ run' = run + 1
    /\ EngineFrame

CallStart ==
    /\ run < MaxEngineCalls
    /\ local' = startGame(local)
    /\ lastOp' = Call("start", "", << >>)
    /\ order' = << >>
    /\ before' = local
    /\ run' = run + 1
    /\ UNCHANGED prev
    /\ EngineFrame

EngineNext ==
    \/ \E id \in EngineIds : CallExecute(id)
    \/ CallUndo
    \/ CallStart

EngineSpec == EngineInit /\ [][EngineNext]_vars


\* ------------------------------------------------------- rejected executions
\* the interaction of the current node of the engine with the id: << >> or
\* <<interaction>>
Named(engine, id) ==
    IF getCurrentNode(engine) = << >> THEN << >>
    ELSE SelectSeq(getCurrentNode(engine)[1].interactions, LAMBDA i : i.id = id)

\* every condition of the interaction holds in the state
Satisfied(interaction, state) ==
    \A k \in 1..Len(interaction.conditions) :
        evaluateCondition(interaction.conditions[k], state)

\* C38: executeInteraction with an id that is not an interaction of the
\* current node, or of an interaction with a condition that does not hold,
\* returns null and leaves the game state and the undo history as they were.
C38_RejectedCallChangesNothing ==
    (/\ lastOp.op = "execute"
     /\ \/ Named(before, lastOp.id) = << >>
        \/ ~Satisfied(Named(before, lastOp.id)[1], before.state))
        => /\ lastOp.returned = << >>
           /\ local.state = before.state
           /\ local.history = before.history

\* after an interaction succeeded, "pay" was called while the coin is held
\* but no gold was earned: one of its conditions holds, the other does not
C38_Witness ==
    /\ lastOp = Call("execute", "pay", << >>)
    /\ before.history # << >>
    /\ "coin" \in Range(before.state.inventory)
    /\ Lookup(before.state.variables, "gold", 0) < 1
    /\ local = before

\* ----------------------------------------------------------------------- undo
\* C39: undo() after interactions that succeeded returns true and puts the
\* whole game state back to what it was immediately before the last of them
\* that was not undone yet, taking that one off the history; undo() on an
\* empty history returns false and changes nothing.
C39_UndoRestoresState ==
    /\ Len(order) = Len(local.history)
    /\ lastOp.op = "undo" =>
        IF before.history = << >>
        THEN lastOp.returned = <<FALSE>> /\ local = before
        ELSE /\ lastOp.returned = <<TRUE>>
             /\ local.state = prev.result[1]
             /\ local.history = SubSeq(before.history, 1, Len(before.history) - 1)

\* an interaction that navigated to a node with onEnter effects, executed
\* after one that stayed on the node, was undone
C39_Witness ==
    /\ lastOp = Call("undo", "", <<TRUE>>)
    /\ before.state.currentNodeId = "n2"
    /\ local.state.currentNodeId = "n1"
    /\ local.state.executedInteractions # << >>
    /\ before.state.flags # local.state.flags
    /\ before.state.variables # local.state.variables
    /\ before.state.visitedLocations # local.state.visitedLocations

\* ------------------------------------------------------------- availability
\* C40: an executeInteraction that succeeds was called with the id of an
\* interaction that getAvailableInteractions returned in the state it was
\* called in.
C40_OnlyAvailableInteractionsExecute ==
    (lastOp.op = "execute" /\ lastOp.returned # << >>) =>
        \E k \in 1..Len(getAvailableInteractions(before)) :
            getAvailableInteractions(before)[k].id = lastOp.id

====
